---- MODULE Spec2Model ----
(***************************************************************************)
(* Model of the Foundation Sites MCP server core: the codebase indexer and *)
(* its cache (engines/CodebaseIndexer.ts, utils/cache.ts), the structural  *)
(* parser (utils/parser.ts), the plugin pattern analyzer                   *)
(* (engines/PluginAnalyzer.ts) and the refactoring analyzer                *)
(* (engines/RefactoringAnalyzer.ts).                                       *)
(*                                                                         *)
(* Text is modelled as a sequence of tokens: "foundation.tabs.js" is       *)
(* <<"foundation", ".", "tabs", ".", "js">>.  Substring tests, prefix      *)
(* removal and basename work on the token sequence.                        *)
(***************************************************************************)
EXTENDS Integers, Sequences, FiniteSets, TLC

VARIABLES
    root,      \* config.foundationRepoPath, a token sequence
    fs,        \* file system: directory -> file name -> file state
    cache,     \* MemoryCache: key -> <<>> (no entry) or <<value>>
    pc,        \* per caller: position of the call in flight
    op,        \* per caller: the operation in flight
    opId,      \* per caller: number of the call in flight
    pending,   \* per caller: directory walks of Promise.all not yet settled
    local,     \* per caller: the catalogs walked so far (local accumulators)
    ret,       \* per caller: <<>> or <<snapshot returned by buildIndex>>
    warns,     \* per caller: logger.warn calls made by the call, per kind
    failedBy,  \* per caller: why the call rejected ("" while it has not)
    hist,      \* history: what the last completed calls established
    after,     \* per caller: history facts that held when the call started
    stable,    \* per caller: no file changed since the call started
    nOps,      \* number of calls started so far
    nFsChanges, \* number of file changes so far
    rq,        \* analyzeForRefactoring: the arguments of the call
    rpc,       \* analyzeForRefactoring: "ready" or "done"
    rres,      \* analyzeForRefactoring: the outcome of the call
    pq,        \* analyzePattern: the arguments of the call
    pfile,     \* analyzePattern: the file system entry that params.code names
    ppc,       \* analyzePattern: "ready" or "done"
    pres,      \* analyzePattern: the outcome of the call
    sheet,     \* stylesheet text: its lines in order
    scanned,   \* extractSassDoc: lines of the loop done so far
    currentDoc, \* extractSassDoc: the pending doc buffer
    docs,      \* extractSassDoc: name -> <<>> or <<description>>
    component, \* parseComponent: <<>> or <<the record returned>>
    tq,        \* request: a tool call, a resource read or a generate call
    tpc,       \* request: "idle", "ready" or "done"
    tres,      \* request: what the caller gets back (returned or thrown)
    traised,   \* request: <<>> or <<the error raised inside the handler>>
    server     \* FoundationMCPServer: position of start(), transport, requests

ixvars == <<root, fs, cache, pc, op, opId, pending, local, ret, warns,
            failedBy, hist, after, stable, nOps, nFsChanges>>

rfvars == <<rq, rpc, rres>>

pavars == <<pq, pfile, ppc, pres>>

sdvars == <<sheet, scanned, currentDoc, docs, component>>

hdvars == <<tq, tpc, tres, traised>>

svvars == <<server>>

vars == <<ixvars, rfvars, pavars, sdvars, hdvars, svvars>>

----------------------------------------------------------------------------
(* Bounds *)

MaxOps == 3
MaxFsChanges == 1

Procs == {1, 2}

----------------------------------------------------------------------------
(* Text helpers: String.prototype.includes / startsWith / endsWith /       *)
(* replace(first occurrence) and path.basename on token sequences.         *)

Includes(s, sub) ==
    \E i \in 1..(Len(s) - Len(sub) + 1) : SubSeq(s, i, i + Len(sub) - 1) = sub

StartsWith(s, pre) ==
    Len(s) >= Len(pre) /\ SubSeq(s, 1, Len(pre)) = pre

EndsWith(s, suf) ==
    Len(s) >= Len(suf) /\ SubSeq(s, Len(s) - Len(suf) + 1, Len(s)) = suf

IndexOf(s, sub) ==
    IF Includes(s, sub)
    THEN CHOOSE i \in 1..(Len(s) - Len(sub) + 1) :
            /\ SubSeq(s, i, i + Len(sub) - 1) = sub
            /\ \A j \in 1..(i - 1) : SubSeq(s, j, j + Len(sub) - 1) # sub
    ELSE 0

\* s.replace(sub, ''): only the first occurrence is removed
ReplaceFirst(s, sub) ==
    IF IndexOf(s, sub) = 0 THEN s
    ELSE SubSeq(s, 1, IndexOf(s, sub) - 1)
            \o SubSeq(s, IndexOf(s, sub) + Len(sub), Len(s))

LastSlash(p) ==
    IF \E i \in 1..Len(p) : p[i] = "/"
    THEN CHOOSE i \in 1..Len(p) :
            p[i] = "/" /\ \A j \in (i + 1)..Len(p) : p[j] # "/"
    ELSE 0

\* path.basename(p, ext): last segment, ext dropped when the segment ends
\* with it and is longer than it
Basename(p, ext) ==
    LET seg == SubSeq(p, LastSlash(p) + 1, Len(p))
    IN IF EndsWith(seg, ext) /\ Len(seg) > Len(ext)
       THEN SubSeq(seg, 1, Len(seg) - Len(ext))
       ELSE seg

\* joinPath(root, dir): path.join
JoinPath(rt, dir) == rt \o <<"/">> \o dir

----------------------------------------------------------------------------
(* Source texts.  A source text is described by what the two grammars and  *)
(* the substring scans can observe of it:                                  *)
(*   js, scss  whether the script / stylesheet grammar accepts it          *)
(*   decls     its class declarations in source order                      *)
(*   calls     its member calls in source order                            *)
(*   words     the marker substrings that occur in the raw text            *)

NoSuper == [kind |-> "none", name |-> <<>>]
Ident(n) == [kind |-> "ident", name |-> n]
MemberExpr(n) == [kind |-> "expr", name |-> n]

Method(k) == [kind |-> "method", key |-> k]
Property(k) == [kind |-> "property", key |-> k]

ClassDecl(exported, id, super, members) ==
    [exported |-> exported, id |-> id, super |-> super, members |-> members]

Source(js, scss, decls, calls, words) ==
    [js |-> js, scss |-> scss, decls |-> decls, calls |-> calls, words |-> words]

\* new ParseError(message, { code }): code PARSE_ERROR, the text as context
ParseError(grammar, src) ==
    [name |-> "ParseError", code |-> "PARSE_ERROR", grammar |-> grammar,
     details |-> src]

----------------------------------------------------------------------------
(* utils/parser.ts: parsePlugin *)

RECURSIVE AddMembers(_, _, _)
\* ExportNamedDeclaration visitor: members are pushed unconditionally
AddMembers(acc, members, kind) ==
    IF members = <<>> THEN acc
    ELSE AddMembers(IF Head(members).kind = kind
                    THEN Append(acc, Head(members).key) ELSE acc,
                    Tail(members), kind)

SeqHas(s, x) == \E i \in 1..Len(s) : s[i] = x

RECURSIVE AddMembersOnce(_, _, _)
\* ClassDeclaration visitor: members are pushed unless already included
AddMembersOnce(acc, members, kind) ==
    IF members = <<>> THEN acc
    ELSE AddMembersOnce(IF Head(members).kind = kind /\ ~SeqHas(acc, Head(members).key)
                        THEN Append(acc, Head(members).key) ELSE acc,
                        Tail(members), kind)

VisitExportNamedDeclaration(st, d) ==
    [st EXCEPT
        !.className = IF d.id # <<>> THEN d.id ELSE @,
        !.exports = IF d.id # <<>> THEN Append(@, d.id) ELSE @,
        !.extendsClass = IF d.super.kind = "ident" THEN d.super.name ELSE @,
        !.methods = AddMembers(@, d.members, "method"),
        !.properties = AddMembers(@, d.members, "property")]

\* mutant: a bare class replaces the names found before it
BareClassOverwrites(st, d) ==
    [st EXCEPT
        !.className = IF d.id # <<>> THEN d.id ELSE @,
        !.extendsClass = IF d.super.kind = "ident" THEN d.super.name ELSE @,
        !.methods = AddMembersOnce(@, d.members, "method"),
        !.properties = AddMembersOnce(@, d.members, "property")]

\* ClassDeclaration visitor
VisitClassDeclaration(st, d) ==
    [st EXCEPT
        !.className = IF @ = <<>> /\ d.id # <<>> THEN d.id ELSE @,
        !.extendsClass = IF @ = <<>> /\ d.super.kind = "ident"
                         THEN d.super.name ELSE @,
        !.methods = AddMembersOnce(@, d.members, "method"),
        !.properties = AddMembersOnce(@, d.members, "property")]

RECURSIVE TraverseDecls(_, _)
\* traverse(): an exported class is entered as ExportNamedDeclaration and
\* then, as its child, as ClassDeclaration; a bare class only as the latter
TraverseDecls(st, decls) ==
    IF decls = <<>> THEN st
    ELSE LET d == Head(decls)
             s1 == IF d.exported THEN VisitExportNamedDeclaration(st, d) ELSE st
         IN TraverseDecls(VisitClassDeclaration(s1, d), Tail(decls))

RECURSIVE CallEvents(_)
\* CallExpression visitor: x.trigger("lit", ...) / x.fire("lit", ...)
CallEvents(calls) ==
    IF calls = <<>> THEN <<>>
    ELSE (IF Head(calls).callee \in {"trigger", "fire"} /\ Head(calls).literal
          THEN <<Head(calls).value>> ELSE <<>>) \o CallEvents(Tail(calls))

ParsePlugin(src) ==
    IF ~src.js
    THEN [ok |-> FALSE, error |-> ParseError("script", src)]
    ELSE [ok |-> TRUE,
          value |-> TraverseDecls([className |-> <<>>, extendsClass |-> <<>>,
                                   methods |-> <<>>, properties |-> <<>>,
                                   exports |-> <<>>], src.decls)
                    @@ [events |-> CallEvents(src.calls)]]

(* utils/parser.ts: parseComponent (grammar outcome only) *)
ParseComponent(src) ==
    IF ~src.scss
    THEN [ok |-> FALSE, error |-> ParseError("stylesheet", src)]
    ELSE [ok |-> TRUE, value |-> [mixins |-> <<>>, classes |-> <<>>]]

----------------------------------------------------------------------------
(* The file system seen by utils/fileSystem.ts *)

JsDir == <<"js">>
ScssDir == <<"scss", "/", "components">>

DotJs == <<".", "js">>
DotScss == <<".", "scss">>

\* directory listings in the order glob reports them
JsNames ==
    << <<"foundation", ".", "tabs", ".", "js">>,
       <<"foundation", ".", "dropdown", ".", "js">>,
       <<"foundation", ".", "util", ".", "box", ".", "js">>,
       <<"foundation", ".", "core", ".", "plugin", ".", "js">>,
       <<"foundation", ".", "js">> >>

ScssNames ==
    << <<"_", "button", ".", "scss">>,
       <<"_", "card", ".", "scss">>,
       <<"_", ".", "scss">>,
       <<"button", ".", "scss">> >>

NamesIn(dir) == IF dir = "js" THEN JsNames ELSE ScssNames
NameSet(dir) == {NamesIn(dir)[i] : i \in 1..Len(NamesIn(dir))}

NoSource == Source(FALSE, FALSE, <<>>, <<>>, {})

PluginBody == <<Method(<<"constructor">>), Method(<<"_init">>), Method(<<"_destroy">>)>>

\* a well-formed file of the framework under the given name
GoodSource(name) ==
    IF EndsWith(name, DotScss)
    THEN Source(FALSE, TRUE, <<>>, <<>>, {})
    ELSE Source(TRUE, FALSE,
                <<ClassDecl(TRUE, <<name[Len(name) - 2]>>, Ident(<<"Plugin">>), PluginBody)>>,
                <<>>, {})

Absent == [st |-> "absent", src |-> NoSource]
Unreadable == [st |-> "unreadable", src |-> NoSource]
BadFile == [st |-> "file", src |-> NoSource]
NoClassFile == [st |-> "file", src |-> Source(TRUE, FALSE, <<>>, <<>>, {})]
GoodFile(name) == [st |-> "file", src |-> GoodSource(name)]

FileStates(dir, name) ==
    {Absent, Unreadable, BadFile, GoodFile(name)}
        \cup (IF dir = "js" THEN {NoClassFile} ELSE {})

\* glob patterns of the three walks ('*' matches within one path segment,
\* not a leading dot)
MatchesPluginGlob(name) ==
    StartsWith(name, <<"foundation", ".">>) /\ EndsWith(name, DotJs) /\ Len(name) >= 4

MatchesUtilityGlob(name) ==
    StartsWith(name, <<"foundation", ".", "util", ".">>) /\ EndsWith(name, DotJs)
        /\ Len(name) >= 6

MatchesScssGlob(name) ==
    EndsWith(name, DotScss) /\ Len(name) >= 3 /\ name[1] # "."

Matches(pattern, name) ==
    CASE pattern = "foundation.*.js" -> MatchesPluginGlob(name)
      [] pattern = "foundation.util.*.js" -> MatchesUtilityGlob(name)
      [] pattern = "*.scss" -> MatchesScssGlob(name)

\* findFiles(baseDir, pattern): the names present in the directory that
\* match, as absolute paths
FindFiles(fsys, rt, dir, dirPath, pattern) ==
    LET Found(n) == fsys[dir][n].st # "absent" /\ Matches(pattern, n)
        names == SelectSeq(NamesIn(dir), Found)
    IN [i \in 1..Len(names) |-> JoinPath(rt, dirPath) \o <<"/">> \o names[i]]

\* readFile(filePath)
ReadFile(fsys, dir, filePath) ==
    LET f == fsys[dir][Basename(filePath, <<>>)]
    IN IF f.st = "file" THEN [ok |-> TRUE, value |-> f.src]
       ELSE [ok |-> FALSE, error |-> [name |-> "Error", code |-> "EIO"]]

----------------------------------------------------------------------------
(* engines/CodebaseIndexer.ts *)

Kinds == {"plugins", "components", "utilities"}

\* the accumulator of one walk: the catalog built so far, the warnings
\* logged, and whether an error escaped the loop
EmptyWalk == [ok |-> TRUE, items |-> <<>>, warns |-> 0]

\* a file function returned an entry or null
Pushed(acc, value) == [acc EXCEPT !.items = @ \o value]

\* mutant: the error of one file escapes the loop
EscapedFileError(acc) == [acc EXCEPT !.ok = FALSE]

\* catch (error) { logger.warn(...) }: the file is omitted, the loop goes on
CaughtFileError(acc) == [acc EXCEPT !.warns = @ + 1]

\* the name filter of indexPlugins, applied to the absolute path
SkippedByName(file) ==
    \/ Includes(file, <<"foundation", ".", "util", ".">>)
    \/ Includes(file, <<"foundation", ".", "core", ".">>)
    \/ Includes(file, <<"foundation", ".", "js">>)

\* parsePluginFile after parsePlugin: null without a class name
PluginFromParsed(parsed, slug) ==
    IF ~parsed.ok THEN [ok |-> FALSE, error |-> parsed.error]
    ELSE IF parsed.value.className = <<>> THEN [ok |-> TRUE, value |-> <<>>]
    ELSE [ok |-> TRUE,
          value |-> <<[name |-> parsed.value.className, slug |-> slug,
                       type |-> "plugin"]>>]

\* parsePluginFile after readFile
PluginFromContent(content, slug) ==
    IF ~content.ok THEN [ok |-> FALSE, error |-> content.error]
    ELSE PluginFromParsed(ParsePlugin(content.value), slug)

ParsePluginFile(fsys, filePath) ==
    PluginFromContent(ReadFile(fsys, "js", filePath),
                      ReplaceFirst(Basename(filePath, DotJs), <<"foundation", ".">>))

\* word.charAt(0).toUpperCase() + word.slice(1)
Capitalize(w) ==
    CASE w = "button" -> "Button"
      [] w = "card" -> "Card"
      [] w = "box" -> "Box"
      [] w = "group" -> "Group"
      [] OTHER -> w

\* slug.split('-').map(capitalize).join(' ')
ComponentName(slug) ==
    [i \in 1..Len(slug) |-> IF slug[i] = "-" THEN " " ELSE Capitalize(slug[i])]

\* filename.startsWith('_') ? filename.slice(1) : filename
ComponentSlug(filename) ==
    IF StartsWith(filename, <<"_">>) THEN Tail(filename) ELSE filename

\* parseComponentFile after parseComponent
ComponentFromParsed(parsed, slug) ==
    IF ~parsed.ok THEN [ok |-> FALSE, error |-> parsed.error]
    ELSE [ok |-> TRUE,
          value |-> <<[name |-> ComponentName(slug), slug |-> slug,
                       type |-> "component"]>>]

\* parseComponentFile after readFile
ComponentFromContent(content, slug) ==
    IF ~content.ok THEN [ok |-> FALSE, error |-> content.error]
    ELSE ComponentFromParsed(ParseComponent(content.value), slug)

ParseComponentFile(fsys, filePath) ==
    ComponentFromContent(ReadFile(fsys, "scss", filePath),
                         ComponentSlug(Basename(filePath, DotScss)))

\* slug.split(/(?=[A-Z])/).join(' ').replace(/^\w/, c => c.toUpperCase())
UpperInitial == {"Query", "Button", "Card", "Box", "Group", "Tabs", "My", "Plugin"}

RECURSIVE SpaceBeforeUpper(_, _)
SpaceBeforeUpper(slug, i) ==
    IF i > Len(slug) THEN <<>>
    ELSE (IF i > 1 /\ slug[i] \in UpperInitial THEN <<" ", slug[i]>> ELSE <<slug[i]>>)
            \o SpaceBeforeUpper(slug, i + 1)

UtilityName(slug) ==
    LET spaced == SpaceBeforeUpper(slug, 1)
    IN [i \in 1..Len(spaced) |-> IF i = 1 THEN Capitalize(spaced[i]) ELSE spaced[i]]

\* parseUtilityFile after parsePlugin
UtilityFromParsed(parsed, slug) ==
    IF ~parsed.ok THEN [ok |-> FALSE, error |-> parsed.error]
    ELSE [ok |-> TRUE,
          value |-> <<[name |-> UtilityName(slug), slug |-> slug,
                       type |-> "utility"]>>]

\* parseUtilityFile after readFile
UtilityFromContent(content, slug) ==
    IF ~content.ok THEN [ok |-> FALSE, error |-> content.error]
    ELSE UtilityFromParsed(ParsePlugin(content.value), slug)

ParseUtilityFile(fsys, filePath) ==
    UtilityFromContent(ReadFile(fsys, "js", filePath),
                       ReplaceFirst(Basename(filePath, DotJs),
                                    <<"foundation", ".", "util", ".">>))

\* try { push } catch { warn }: what one file does to the accumulator
Settled(acc, r) == IF r.ok THEN Pushed(acc, r.value) ELSE CaughtFileError(acc)

RECURSIVE IndexPluginsLoop(_, _, _)
IndexPluginsLoop(fsys, files, acc) ==
    IF files = <<>> \/ ~acc.ok THEN acc
    ELSE IndexPluginsLoop(fsys, Tail(files),
            IF SkippedByName(Head(files)) THEN acc
            ELSE Settled(acc, ParsePluginFile(fsys, Head(files))))

IndexPlugins(fsys, rt) ==
    IndexPluginsLoop(fsys, FindFiles(fsys, rt, "js", JsDir, "foundation.*.js"), EmptyWalk)

RECURSIVE IndexComponentsLoop(_, _, _)
IndexComponentsLoop(fsys, files, acc) ==
    IF files = <<>> \/ ~acc.ok THEN acc
    ELSE IndexComponentsLoop(fsys, Tail(files),
                             Settled(acc, ParseComponentFile(fsys, Head(files))))

IndexComponents(fsys, rt) ==
    IndexComponentsLoop(fsys, FindFiles(fsys, rt, "scss", ScssDir, "*.scss"), EmptyWalk)

RECURSIVE IndexUtilitiesLoop(_, _, _)
IndexUtilitiesLoop(fsys, files, acc) ==
    IF files = <<>> \/ ~acc.ok THEN acc
    ELSE IndexUtilitiesLoop(fsys, Tail(files),
                            Settled(acc, ParseUtilityFile(fsys, Head(files))))

IndexUtilities(fsys, rt) ==
    IndexUtilitiesLoop(fsys, FindFiles(fsys, rt, "js", JsDir, "foundation.util.*.js"),
                       EmptyWalk)

\* mutant: the float grid is listed first
FloatGridFirst ==
    << [name |-> <<"Float", " ", "Grid">>, slug |-> <<"float", "-", "grid">>,
        type |-> "grid-system"],
       [name |-> <<"XY", " ", "Grid">>, slug |-> <<"xy", "-", "grid">>,
        type |-> "grid-system"] >>

\* indexGrids(): the two built-in grid systems
IndexGrids ==
    << [name |-> <<"XY", " ", "Grid">>, slug |-> <<"xy", "-", "grid">>,
        type |-> "grid-system"],
       [name |-> <<"Float", " ", "Grid">>, slug |-> <<"float", "-", "grid">>,
        type |-> "grid-system"] >>

IndexKind(k, fsys, rt) ==
    CASE k = "plugins" -> IndexPlugins(fsys, rt)
      [] k = "components" -> IndexComponents(fsys, rt)
      [] k = "utilities" -> IndexUtilities(fsys, rt)

----------------------------------------------------------------------------
(* utils/cache.ts: MemoryCache and CacheKeys *)

PluginIndexKey == "foundation:plugins:index"
ComponentIndexKey == "foundation:components:index"
CacheKeyNames == {PluginIndexKey, ComponentIndexKey}

\* get(key): the value, or null (here <<>>) when there is none
CacheGet(c, key) == c[key]

\* mutant: the value is not stored
CacheSetDropped(c, key, value) == c

\* mutant: a present entry is updated catalog by catalog, its grids kept
CacheSetMerged(c, key, value) ==
    IF c[key] = <<>> THEN [c EXCEPT ![key] = <<value>>]
    ELSE [c EXCEPT ![key] = <<[value EXCEPT !.grids = c[key][1].grids]>>]

\* set(key, value): the entry is replaced by the value
CacheSet(c, key, value) == [c EXCEPT ![key] = <<value>>]

\* mutant: the entry is kept
CacheDeleteKept(c, key) == c

\* delete(key)
CacheDelete(c, key) == [c EXCEPT ![key] = <<>>]

\* has(key)
CacheHas(c, key) == c[key] # <<>>

----------------------------------------------------------------------------
(* Calls of buildIndex() and invalidateCache() by concurrent callers.  A   *)
(* call runs up to its next await in one step.  A caller that is not in    *)
(* flight keeps the outcome of its last call until it calls again.         *)

NoCatalog == [by |-> 0, items |-> <<>>]

\* history: clean    the last buildIndex() returned snap with no other call
\*                   in flight, and nothing has removed the entry since
\*          inv      the last invalidateCache() returned with no other call
\*                   in flight, and no call has started since
\*          dropped  the entry that invalidateCache() removed
\*          invAlone an invalidateCache() is in flight and no other call
\*                   has been in flight with it
NoHistory ==
    [clean |-> FALSE, snap |-> <<>>, inv |-> FALSE, dropped |-> <<>>,
     invAlone |-> FALSE]
NoFacts == [snap |-> <<>>, inv |-> FALSE, dropped |-> <<>>]

InFlight(q) == pc[q] \in {"walk", "del2"}
Alone(p) == \A q \in Procs \ {p} : ~InFlight(q)

\* the snapshot without the record of which call built which catalog
Value(index) ==
    [plugins |-> index.plugins.items, components |-> index.components.items,
     utilities |-> index.utilities.items, grids |-> index.grids.items]

\* const index = { plugins, components, utilities, grids }
AssembleIndex(cats, id) ==
    [plugins |-> cats["plugins"], components |-> cats["components"],
     utilities |-> cats["utilities"], grids |-> [by |-> id, items |-> IndexGrids]]

StartCall(p, name) ==
    /\ pc[p] \in {"idle", "done", "failed"}
    /\ nOps < MaxOps
    /\ nOps' = nOps + 1
    /\ op' = [op EXCEPT ![p] = name]
    /\ opId' = [opId EXCEPT ![p] = nOps + 1]
    /\ after' = [after EXCEPT ![p] =
                    IF name = "buildIndex"
                    THEN [snap |-> IF hist.clean THEN hist.snap ELSE <<>>,
                          inv |-> hist.inv,
                          dropped |-> IF hist.inv THEN hist.dropped ELSE <<>>]
                    ELSE NoFacts]
    /\ stable' = [stable EXCEPT ![p] = TRUE]

\* buildIndex(), cache hit: the cached snapshot is returned
BuildIndexHit(p) ==
    /\ StartCall(p, "buildIndex")
    /\ CacheGet(cache, PluginIndexKey) # <<>>
    /\ ret' = [ret EXCEPT ![p] = CacheGet(cache, PluginIndexKey)]
    /\ pc' = [pc EXCEPT ![p] = "done"]
    /\ hist' = [clean |-> Alone(p),
                snap |-> IF Alone(p) THEN CacheGet(cache, PluginIndexKey) ELSE <<>>,
                inv |-> FALSE, dropped |-> <<>>, invAlone |-> FALSE]
    /\ pending' = [pending EXCEPT ![p] = {}]
    /\ local' = [local EXCEPT ![p] = [k \in Kinds |-> NoCatalog]]
    /\ warns' = [warns EXCEPT ![p] = [k \in Kinds |-> 0]]
    /\ failedBy' = [failedBy EXCEPT ![p] = ""]
    /\ UNCHANGED <<root, fs, cache, nFsChanges>>

\* buildIndex(), cache miss: the four index functions are started
BuildIndexMiss(p) ==
    /\ StartCall(p, "buildIndex")
    /\ CacheGet(cache, PluginIndexKey) = <<>>
    /\ pc' = [pc EXCEPT ![p] = "walk"]
    /\ pending' = [pending EXCEPT ![p] = Kinds]
    /\ hist' = [hist EXCEPT !.inv = FALSE, !.dropped = <<>>, !.invAlone = FALSE]
    /\ local' = [local EXCEPT ![p] = [k \in Kinds |-> NoCatalog]]
    /\ warns' = [warns EXCEPT ![p] = [k \in Kinds |-> 0]]
    /\ failedBy' = [failedBy EXCEPT ![p] = ""]
    /\ ret' = [ret EXCEPT ![p] = <<>>]
    /\ UNCHANGED <<root, fs, cache, nFsChanges>>

\* one of indexPlugins / indexComponents / indexUtilities runs
Walk(p, k) ==
    /\ pc[p] = "walk"
    /\ k \in pending[p]
    /\ LET w == IndexKind(k, fs, root)
       IN IF w.ok
          THEN /\ local' = [local EXCEPT ![p][k] = [by |-> opId[p], items |-> w.items]]
               /\ warns' = [warns EXCEPT ![p][k] = w.warns]
               /\ pending' = [pending EXCEPT ![p] = @ \ {k}]
               /\ UNCHANGED <<pc, failedBy>>
          ELSE /\ pc' = [pc EXCEPT ![p] = "failed"]
               /\ failedBy' = [failedBy EXCEPT ![p] = "file"]
               /\ pending' = [pending EXCEPT ![p] = {}]
               /\ local' = [local EXCEPT ![p] = [j \in Kinds |-> NoCatalog]]
               /\ UNCHANGED warns
    /\ UNCHANGED <<root, fs, cache, op, opId, ret, hist, after, stable, nOps, nFsChanges>>

\* mutant: the catalogs gathered so far are stored when a walk throws
WalkFailStoresPartial(p, k) ==
    /\ pc[p] = "walk"
    /\ k \in pending[p]
    /\ pc' = [pc EXCEPT ![p] = "failed"]
    /\ failedBy' = [failedBy EXCEPT ![p] = "findFiles"]
    /\ pending' = [pending EXCEPT ![p] = {}]
    /\ cache' = CacheSet(cache, PluginIndexKey, AssembleIndex(local[p], opId[p]))
    /\ local' = [local EXCEPT ![p] = [j \in Kinds |-> NoCatalog]]
    /\ UNCHANGED <<root, fs, op, opId, ret, warns, hist, after,
                   stable, nOps, nFsChanges>>

\* findFiles of one walk throws: Promise.all rejects and so does buildIndex
WalkFail(p, k) ==
    /\ pc[p] = "walk"
    /\ k \in pending[p]
    /\ pc' = [pc EXCEPT ![p] = "failed"]
    /\ failedBy' = [failedBy EXCEPT ![p] = "findFiles"]
    /\ pending' = [pending EXCEPT ![p] = {}]
    /\ local' = [local EXCEPT ![p] = [j \in Kinds |-> NoCatalog]]
    /\ UNCHANGED <<root, fs, cache, op, opId, ret, warns, hist, after,
                   stable, nOps, nFsChanges>>

\* all walks settled: the snapshot is assembled, cached and returned
BuildIndexSet(p) ==
    /\ pc[p] = "walk"
    /\ pending[p] = {}
    /\ LET index == AssembleIndex(local[p], opId[p])
       IN /\ cache' = CacheSet(cache, PluginIndexKey, index)
          /\ ret' = [ret EXCEPT ![p] = <<index>>]
          /\ hist' = [clean |-> Alone(p),
                      snap |-> IF Alone(p) THEN <<index>> ELSE <<>>,
                      inv |-> FALSE, dropped |-> <<>>, invAlone |-> FALSE]
    /\ pc' = [pc EXCEPT ![p] = "done"]
    /\ local' = [local EXCEPT ![p] = [k \in Kinds |-> NoCatalog]]
    /\ UNCHANGED <<root, fs, op, opId, pending, warns, failedBy, after, stable,
                   nOps, nFsChanges>>

\* invalidateCache(): the first delete runs with the call
InvalidateCall(p) ==
    /\ StartCall(p, "invalidateCache")
    /\ cache' = CacheDelete(cache, PluginIndexKey)
    /\ pc' = [pc EXCEPT ![p] = "del2"]
    /\ hist' = [clean |-> FALSE, snap |-> <<>>, inv |-> FALSE,
                dropped |-> IF Alone(p) THEN CacheGet(cache, PluginIndexKey) ELSE <<>>,
                invAlone |-> Alone(p)]
    /\ pending' = [pending EXCEPT ![p] = {}]
    /\ local' = [local EXCEPT ![p] = [k \in Kinds |-> NoCatalog]]
    /\ warns' = [warns EXCEPT ![p] = [k \in Kinds |-> 0]]
    /\ failedBy' = [failedBy EXCEPT ![p] = ""]
    /\ ret' = [ret EXCEPT ![p] = <<>>]
    /\ UNCHANGED <<root, fs, nFsChanges>>

\* invalidateCache(): the second delete, then the call returns
InvalidateSecond(p) ==
    /\ pc[p] = "del2"
    /\ cache' = CacheDelete(cache, ComponentIndexKey)
    /\ pc' = [pc EXCEPT ![p] = "done"]
    /\ hist' = [clean |-> FALSE, snap |-> <<>>, inv |-> hist.invAlone,
                dropped |-> hist.dropped, invAlone |-> FALSE]
    /\ UNCHANGED <<root, fs, op, opId, pending, local, ret, warns, failedBy, after,
                   stable, nOps, nFsChanges>>

\* the file changes explored
Edits ==
    { <<"js", JsNames[2], Absent>>, <<"scss", ScssNames[1], BadFile>> }

\* a file of the repository is created, removed or rewritten
FsChange(dir, name, st) ==
    /\ nFsChanges < MaxFsChanges
    /\ <<dir, name, st>> \in Edits
    /\ st \in FileStates(dir, name)
    /\ fs[dir][name] # st
    /\ fs' = [fs EXCEPT ![dir][name] = st]
    /\ nFsChanges' = nFsChanges + 1
    /\ stable' = [p \in Procs |-> FALSE]
    /\ UNCHANGED <<root, cache, pc, op, opId, pending, local, ret, warns, failedBy,
                   hist, after, nOps>>

\* the cache drops an entry by itself (time to live, eviction)
Expire(key) ==
    /\ cache[key] # <<>>
    /\ cache' = [cache EXCEPT ![key] = <<>>]
    /\ hist' = [hist EXCEPT !.clean = FALSE, !.snap = <<>>]
    /\ UNCHANGED <<root, fs, pc, op, opId, pending, local, ret, warns, failedBy,
                   after, stable, nOps, nFsChanges>>

PlainRoot == <<"/", "srv", "/", "foundation-sites">>

\* the names that only some repositories hold
ExtraNames == {JsNames[4], JsNames[5], ScssNames[4]}

AllGood ==
    [d \in {"js", "scss"} |->
        [n \in NameSet(d) |-> IF n \in ExtraNames THEN Absent ELSE GoodFile(n)]]

MixedFs ==
    [AllGood EXCEPT !["js"][JsNames[1]] = NoClassFile,
                    !["js"][JsNames[2]] = BadFile,
                    !["scss"][ScssNames[2]] = Unreadable,
                    !["scss"][ScssNames[3]] = Absent]

InitFs == {AllGood, MixedFs}

\* the indexer after construction: nothing cached, no call made
IndexStart ==
    /\ cache = [k \in CacheKeyNames |-> <<>>]
    /\ pc = [p \in Procs |-> "idle"]
    /\ op = [p \in Procs |-> "none"]
    /\ opId = [p \in Procs |-> 0]
    /\ pending = [p \in Procs |-> {}]
    /\ local = [p \in Procs |-> [k \in Kinds |-> NoCatalog]]
    /\ ret = [p \in Procs |-> <<>>]
    /\ warns = [p \in Procs |-> [k \in Kinds |-> 0]]
    /\ failedBy = [p \in Procs |-> ""]
    /\ hist = NoHistory
    /\ after = [p \in Procs |-> NoFacts]
    /\ stable = [p \in Procs |-> TRUE]
    /\ nOps = 0
    /\ nFsChanges = 0

IndexInit ==
    /\ root = PlainRoot
    /\ fs \in InitFs
    /\ IndexStart

NoRequest == [sourceCode |-> NoSource, sourceType |-> "", foundationTarget |-> <<>>]
NoOutcome == [status |-> "none"]

RefactorIdle == rq = NoRequest /\ rpc = "idle" /\ rres = NoOutcome

PatternIdle ==
    /\ pq = [code |-> NoSource, patternType |-> ""]
    /\ pfile = Absent
    /\ ppc = "idle"
    /\ pres = NoOutcome

\* the names a stylesheet line can declare
SassNames == {<<"pad">>, <<"gap">>, <<"box">>}
NoDocs == [n \in SassNames |-> <<>>]

SassIdle ==
    /\ sheet = <<>>
    /\ scanned = 0
    /\ currentDoc = <<>>
    /\ docs = NoDocs
    /\ component = <<>>

HandlersIdle ==
    /\ tq = [via |-> "none"]
    /\ tpc = "idle"
    /\ tres = NoOutcome
    /\ traised = <<>>

\* no server object
NoServer == [pc |-> "none", connected |-> FALSE, handled |-> 0, error |-> <<>>]
ServerIdle == server = NoServer

Init == IndexInit /\ RefactorIdle /\ PatternIdle /\ SassIdle /\ HandlersIdle /\ ServerIdle

IndexNext ==
    \/ \E p \in Procs : BuildIndexHit(p)
    \/ \E p \in Procs : BuildIndexMiss(p)
    \/ \E p \in Procs, k \in Kinds : Walk(p, k)
    \/ \E p \in Procs, k \in Kinds : WalkFail(p, k)
    \/ \E p \in Procs : BuildIndexSet(p)
    \/ \E p \in Procs : InvalidateCall(p)
    \/ \E p \in Procs : InvalidateSecond(p)
    \/ \E e \in Edits : FsChange(e[1], e[2], e[3])
    \/ \E key \in CacheKeyNames : Expire(key)

Next == IndexNext /\ UNCHANGED <<rfvars, pavars, sdvars, hdvars, svvars>>

Spec == Init /\ [][Next]_vars

\* one caller builds the index of a repository that may hold the extra
\* files, under each repository root
Roots ==
    { PlainRoot,
      <<"/", "srv", "/", "foundation", ".", "js">>,
      <<"/", "srv", "/", "foundation", ".", "util", ".", "fork">> }

WalkFs ==
    { [AllGood EXCEPT !["js"][JsNames[1]] = tabs, !["js"][JsNames[4]] = core,
                      !["js"][JsNames[5]] = entry, !["scss"][ScssNames[4]] = plain] :
        tabs \in {GoodFile(JsNames[1]), NoClassFile},
        core \in {Absent, GoodFile(JsNames[4])},
        entry \in {Absent, GoodFile(JsNames[5])},
        plain \in {Absent, GoodFile(ScssNames[4])} }

WalkInit ==
    /\ root \in Roots
    /\ fs \in WalkFs
    /\ IndexStart
    /\ RefactorIdle /\ PatternIdle /\ SassIdle /\ HandlersIdle /\ ServerIdle

WalkNext ==
    /\ \/ BuildIndexMiss(1)
       \/ \E k \in Kinds : Walk(1, k)
       \/ BuildIndexSet(1)
       \/ BuildIndexHit(1)
    /\ UNCHANGED <<rfvars, pavars, sdvars, hdvars, svvars>>

SpecWalk == WalkInit /\ [][WalkNext]_vars

----------------------------------------------------------------------------
(* Properties of the codebase index *)

\* what a full walk of the given file system yields
FullIndex(fsys, rt) ==
    [plugins |-> IndexPlugins(fsys, rt).items,
     components |-> IndexComponents(fsys, rt).items,
     utilities |-> IndexUtilities(fsys, rt).items,
     grids |-> IndexGrids]

Returned(p) == op[p] = "buildIndex" /\ pc[p] = "done"

\* the call walked the directories itself
SelfBuilt(p) == Returned(p) /\ \A k \in Kinds : ret[p][1][k].by = opId[p]

\* the files a walk considers, and how they fare
Candidates(k) ==
    CASE k = "plugins" ->
            {n \in NameSet("js") :
                /\ fs["js"][n].st # "absent"
                /\ MatchesPluginGlob(n)
                /\ ~SkippedByName(JoinPath(root, JsDir) \o <<"/">> \o n)}
      [] k = "utilities" ->
            {n \in NameSet("js") : fs["js"][n].st # "absent" /\ MatchesUtilityGlob(n)}
      [] k = "components" ->
            {n \in NameSet("scss") : fs["scss"][n].st # "absent" /\ MatchesScssGlob(n)}

DirOf(k) == IF k = "components" THEN "scss" ELSE "js"

ParsesAs(k, n) ==
    LET f == fs[DirOf(k)][n]
    IN f.st = "file" /\ (IF k = "components" THEN f.src.scss ELSE f.src.js)

Parsing(k) == {n \in Candidates(k) : ParsesAs(k, n)}
Failing(k) == {n \in Candidates(k) : ~ParsesAs(k, n)}
Classless == {n \in Parsing("plugins") : fs["js"][n].src.decls = <<>>}

\* C1: a buildIndex() call that follows a returned buildIndex() call, with
\* no invalidateCache(), expiry or eviction in between, returns a snapshot
\* equal to the earlier one and is served from the cache: it walks no
\* directory, whatever happened to the files meanwhile.
C1_SecondCallFromCache ==
    \A p \in Procs :
        (op[p] = "buildIndex" /\ after[p].snap # <<>>) =>
            /\ pc[p] = "done"
            /\ Value(ret[p][1]) = Value(after[p].snap[1])
            /\ \A k \in Kinds : ret[p][1][k].by # opId[p]

\* C1 witness: a second call served from the cache although a walk of the
\* present files would give another snapshot
C1_Witness ==
    \E p \in Procs :
        /\ Returned(p)
        /\ after[p].snap # <<>>
        /\ nFsChanges > 0
        /\ Value(ret[p][1]) # FullIndex(fs, root)

\* C2: once invalidateCache() has returned with no other call in flight the
\* cache has no entry under the snapshot key, and the next buildIndex()
\* walks all directories and returns the snapshot of the files as they are
\* then.
C2_InvalidateThenRebuild ==
    /\ hist.inv => ~CacheHas(cache, PluginIndexKey)
    /\ \A p \in Procs :
        (op[p] = "buildIndex" /\ after[p].inv) =>
            \/ pc[p] \in {"walk", "failed"}
            \/ /\ SelfBuilt(p)
               /\ stable[p] => Value(ret[p][1]) = FullIndex(fs, root)

\* C2 witness: a rebuild after an invalidation returns a snapshot that
\* differs from the one the invalidation removed
C2_Witness ==
    \E p \in Procs :
        /\ Returned(p)
        /\ after[p].inv
        /\ after[p].dropped # <<>>
        /\ stable[p]
        /\ Value(ret[p][1]) # Value(after[p].dropped[1])

\* C3 as claimed: a build whose directory walks succeed never fails, and
\* each catalog has exactly one entry per file that parses, the failing
\* files being logged as warnings.
C3_OneEntryPerParsedFile ==
    \A p \in Procs :
        /\ (op[p] = "buildIndex" /\ pc[p] = "failed") => failedBy[p] = "findFiles"
        /\ (SelfBuilt(p) /\ stable[p]) =>
              \A k \in Kinds :
                 /\ Len(ret[p][1][k].items) = Cardinality(Parsing(k))
                 /\ warns[p][k] = Cardinality(Failing(k))

\* C3 amended: as C3, except that the plugin catalog has one entry per
\* file that parses and declares a class; a plugin file that parses
\* without a class is omitted as well, without a warning.
C3_OneEntryPerParsedFileWithClass ==
    \A p \in Procs :
        /\ (op[p] = "buildIndex" /\ pc[p] = "failed") => failedBy[p] = "findFiles"
        /\ (SelfBuilt(p) /\ stable[p]) =>
              \A k \in Kinds :
                 /\ Len(ret[p][1][k].items) =
                        Cardinality(Parsing(k) \ (IF k = "plugins" THEN Classless ELSE {}))
                 /\ warns[p][k] = Cardinality(Failing(k))

\* C3 witness: a build over a plugin directory with a parsed file without a
\* class and a failing file, and a component directory with a parsed and a
\* failing file
C3_Witness ==
    \E p \in Procs :
        /\ SelfBuilt(p)
        /\ stable[p]
        /\ Classless # {}
        /\ Failing("plugins") # {}
        /\ Parsing("components") # {}
        /\ Failing("components") # {}

\* C4: under every interleaving the cache holds under the snapshot key
\* nothing or one complete snapshot, all four catalogs of which were
\* produced by one and the same buildIndex() call.
C4_OneWholeSnapshot ==
    \/ cache[PluginIndexKey] = <<>>
    \/ /\ Len(cache[PluginIndexKey]) = 1
       /\ DOMAIN cache[PluginIndexKey][1] = Kinds \cup {"grids"}
       /\ cache[PluginIndexKey][1].grids.by # 0
       /\ \A k \in Kinds :
             cache[PluginIndexKey][1][k].by = cache[PluginIndexKey][1].grids.by

\* C4 witness: two overlapping builds returned different snapshots and the
\* cache holds the one written last, whole
C4_Witness ==
    \E p \in Procs : \E q \in Procs \ {p} :
        /\ SelfBuilt(p)
        /\ SelfBuilt(q)
        /\ Value(ret[p][1]) # Value(ret[q][1])
        /\ cache[PluginIndexKey] = ret[p]

\* C15: every snapshot that buildIndex() returns, built by the call or read
\* from the cache, has the four catalogs plugins, components, utilities and
\* grids, and its grids catalog is xy-grid then float-grid, whatever the
\* files are.
C15_FourCatalogsFixedGrids ==
    \A p \in Procs :
        Returned(p) =>
            /\ Len(ret[p]) = 1
            /\ DOMAIN ret[p][1] = {"plugins", "components", "utilities", "grids"}
            /\ Len(ret[p][1].grids.items) = 2
            /\ ret[p][1].grids.items[1].slug = <<"xy", "-", "grid">>
            /\ ret[p][1].grids.items[1].type = "grid-system"
            /\ ret[p][1].grids.items[2].slug = <<"float", "-", "grid">>
            /\ ret[p][1].grids.items[2].type = "grid-system"

\* C15 witness: one caller built its snapshot, the other got that snapshot
\* from the cache after a file changed, and the file catalogs are not all
\* full
C15_Witness ==
    \E p \in Procs : \E q \in Procs \ {p} :
        /\ SelfBuilt(p)
        /\ Returned(q) /\ ~SelfBuilt(q)
        /\ ret[q] = ret[p]
        /\ nFsChanges > 0
        /\ Value(ret[p][1]) # FullIndex(AllGood, root)

----------------------------------------------------------------------------
(* engines/RefactoringAnalyzer.ts *)

\* code.toLowerCase(), word by word
ToLowerCase(w) ==
    CASE w = "Card" -> "card"
      [] w = "Modal" -> "modal"
      [] OTHER -> w

\* hasFeature(code, keywords): some keyword occurs in the lower-cased text
HasFeature(code, keywords) ==
    \E kw \in keywords : \E w \in code.words : ToLowerCase(w) = kw

\* the feature record handed to findSimilarComponents, in key order
PluginFeatures(code) ==
    << <<"hasDropdown", HasFeature(code, {"dropdown", "menu", "select"})>>,
       <<"hasAccordion", HasFeature(code, {"accordion", "toggle", "expand"})>>,
       <<"hasModal", HasFeature(code, {"modal", "dialog", "overlay"})>>,
       <<"hasCarousel", HasFeature(code, {"carousel", "slider", "rotation"})>>,
       <<"hasTooltip", HasFeature(code, {"tooltip", "popover", "hint"})>>,
       <<"hasForm", HasFeature(code, {"form", "validate", "validation"})>> >>

ComponentFeatures(code) ==
    << <<"hasButton", HasFeature(code, {"button", "btn"})>>,
       <<"hasCard", HasFeature(code, {"card", "panel", "box"})>>,
       <<"hasBadge", HasFeature(code, {"badge", "label", "tag"})>>,
       <<"hasAlert", HasFeature(code, {"alert", "message", "notification"})>>,
       <<"hasCallout", HasFeature(code, {"callout", "notice", "info"})>>,
       <<"hasGrid", HasFeature(code, {"grid", "layout", "column"})>> >>

FeatureToComponent(feature) ==
    CASE feature = "hasDropdown" -> [name |-> <<"Dropdown">>, slug |-> <<"dropdown">>]
      [] feature = "hasAccordion" -> [name |-> <<"Accordion">>, slug |-> <<"accordion">>]
      [] feature = "hasModal" -> [name |-> <<"Reveal">>, slug |-> <<"reveal">>]
      [] feature = "hasCarousel" -> [name |-> <<"Orbit">>, slug |-> <<"orbit">>]
      [] feature = "hasTooltip" -> [name |-> <<"Tooltip">>, slug |-> <<"tooltip">>]
      [] feature = "hasForm" -> [name |-> <<"Abide">>, slug |-> <<"abide">>]
      [] feature = "hasButton" -> [name |-> <<"Button">>, slug |-> <<"button">>]
      [] feature = "hasCard" -> [name |-> <<"Card">>, slug |-> <<"card">>]
      [] feature = "hasBadge" -> [name |-> <<"Badge">>, slug |-> <<"badge">>]
      [] feature = "hasAlert" -> [name |-> <<"Callout">>, slug |-> <<"callout">>]
      [] feature = "hasCallout" -> [name |-> <<"Callout">>, slug |-> <<"callout">>]
      [] feature = "hasGrid" -> [name |-> <<"XY", " ", "Grid">>, slug |-> <<"xy", "-", "grid">>]

\* mutant: the explicit target is scored like a detected feature
UserTargetAsDetected(target) ==
    [name |-> target.name, slug |-> target.slug, similarity |-> 85,
     reasoning |-> <<"User specified target", target.name>>]

\* the single suggestion returned for an explicit target found in the catalog
UserTargetSuggestion(target) ==
    [name |-> target.name, slug |-> target.slug, similarity |-> 100,
     reasoning |-> <<"User specified target", target.name>>]

DetectedSuggestion(feature) ==
    [name |-> FeatureToComponent(feature).name,
     slug |-> FeatureToComponent(feature).slug,
     similarity |-> 85,
     reasoning |-> <<"Detected", feature>>]

\* mutant: every suggestion is returned
AllSuggestions(suggestions) == suggestions

RECURSIVE DistinctBySlug(_, _)
DistinctBySlug(suggestions, seen) ==
    IF suggestions = <<>> THEN <<>>
    ELSE IF Head(suggestions).slug \in seen
    THEN DistinctBySlug(Tail(suggestions), seen)
    ELSE <<Head(suggestions)>>
            \o DistinctBySlug(Tail(suggestions), seen \cup {Head(suggestions).slug})

\* mutant: a catalog target is suggested once
TopDistinctSuggestions(suggestions) ==
    SubSeq(DistinctBySlug(suggestions, {}), 1,
           IF Len(DistinctBySlug(suggestions, {})) < 3
           THEN Len(DistinctBySlug(suggestions, {})) ELSE 3)

\* suggestions.slice(0, 3)
TopSuggestions(suggestions) ==
    SubSeq(suggestions, 1, IF Len(suggestions) < 3 THEN Len(suggestions) ELSE 3)

RECURSIVE MapDetected(_)
\* Object.entries(features).filter(([, value]) => value).map(...)
MapDetected(features) ==
    IF features = <<>> THEN <<>>
    ELSE (IF Head(features)[2] THEN <<DetectedSuggestion(Head(features)[1])>> ELSE <<>>)
            \o MapDetected(Tail(features))

\* components.find(c => c.slug === foundationTarget): <<>> or <<the first>>
FindBySlug(components, slug) ==
    LET hits == SelectSeq(components, LAMBDA c : c.slug = slug)
    IN IF hits = <<>> THEN <<>> ELSE <<Head(hits)>>

\* mutant: a given target is suggested whether the catalog lists it or not
FindSimilarTrustingTarget(features, components, foundationTarget) ==
    IF foundationTarget # <<>> /\ foundationTarget[1] # <<>>
    THEN <<UserTargetSuggestion([name |-> foundationTarget[1],
                                 slug |-> foundationTarget[1]])>>
    ELSE TopSuggestions(MapDetected(features))

\* foundationTarget is <<>> when the argument is absent, else <<slug>>; the
\* empty string is falsy
FindSimilarComponents(features, components, foundationTarget) ==
    LET given == foundationTarget # <<>> /\ foundationTarget[1] # <<>>
        target == FindBySlug(components, foundationTarget[1])
    IN IF given /\ target # <<>>
       THEN <<UserTargetSuggestion(target[1])>>
       ELSE TopSuggestions(MapDetected(features))

\* code.includes(text): a marker among the words of the text, or part of a
\* member name the text declares
HasText(code, text) ==
    \/ text \in code.words
    \/ \E i \in 1..Len(code.decls) : \E j \in 1..Len(code.decls[i].members) :
          Includes(code.decls[i].members[j].key, <<text>>)
          \/ code.decls[i].members[j].key = <<"_" \o text>>

Note(applies, text) == IF applies THEN <<text>> ELSE <<>>

\* mutant: the universal notes are pushed first
PluginNotesFirst(code) ==
    << "Data attribute format changes to [data-{slug}]",
       "Selector changes to use Foundation data attributes",
       "Event namespace changes to .zf.{pluginname}" >>
    \o Note(HasText(code, "addEventListener"),
            "Replace addEventListener with jQuery .on() method")
    \o Note(~HasText(code, "destroy"), "Must implement _destroy() for proper cleanup")

\* identifyPluginBreakingChanges(code, suggestion)
IdentifyPluginBreakingChanges(code) ==
    Note(HasText(code, "addEventListener"),
         "Replace addEventListener with jQuery .on() method")
    \o Note(HasText(code, "classList"),
            "Use jQuery addClass/removeClass instead of classList")
    \o Note(HasText(code, "dispatchEvent"),
            "Use jQuery .trigger() for events instead of dispatchEvent")
    \o Note(~HasText(code, "destroy"), "Must implement _destroy() for proper cleanup")
    \o Note(~HasText(code, "ARIA") /\ ~HasText(code, "aria-"),
            "Add ARIA attributes for accessibility compliance")
    \o << "Data attribute format changes to [data-{slug}]",
          "Selector changes to use Foundation data attributes",
          "Event namespace changes to .zf.{pluginname}" >>

\* identifyComponentBreakingChanges(code, suggestion)
IdentifyComponentBreakingChanges(code) ==
    Note(HasText(code, "px") /\ ~HasText(code, "rem"),
         "Replace px units with rem-calc() for responsive design")
    \o Note(~HasText(code, "!default"),
            "Add !default flag to all variables for customization")
    \o Note(~HasText(code, "@mixin"), "Organize styles into reusable mixins")
    \o Note(~HasText(code, "@include"), "Include mixin in main component mixin")
    \o Note(HasText(code, "hardcoded colors"),
            "Use Foundation color palette variables instead of hardcoded colors")
    \o << "CSS class naming may change to align with Foundation conventions",
          "Layout assumptions may conflict with Foundation grid system" >>

\* mutant: the failure is rethrown inside a new error
WrappedError(error) == [name |-> "Error", code |-> "ANALYSIS_FAILED", cause |-> error]

\* catch (error) { logger.error(...); throw error; }
RethrownError(error) == error

\* mutant: the index is returned and not stored
UnstoredIndex(c, index) == [ok |-> TRUE, index |-> index, cache |-> c]

\* buildIndex() after the walks: the index is stored and returned
StoredIndex(c, index) ==
    [ok |-> TRUE, index |-> index, cache |-> CacheSet(c, PluginIndexKey, index)]

\* buildIndex() run to its end without another call interleaved
BuildIndexAlone(c, fsys, rt, id, walkThrows) ==
    IF CacheGet(c, PluginIndexKey) # <<>>
    THEN [ok |-> TRUE, index |-> CacheGet(c, PluginIndexKey)[1], cache |-> c]
    ELSE IF walkThrows
    THEN [ok |-> FALSE, error |-> [name |-> "Error", code |-> "findFiles"], cache |-> c]
    ELSE StoredIndex(c, AssembleIndex(
            [k \in Kinds |-> [by |-> id, items |-> IndexKind(k, fsys, rt).items]], id))

\* the body of the try block once the source is parsed and the index built
Analysis(sourceType, parsed, built, features, catalogName, foundationTarget, c, breakingChanges) ==
    IF ~parsed.ok
    THEN [outcome |-> [status |-> "error", error |-> RethrownError(parsed.error)],
          cache |-> c]
    ELSE IF ~built.ok
    THEN [outcome |-> [status |-> "error", error |-> RethrownError(built.error)],
          cache |-> built.cache]
    ELSE [outcome |-> [status |-> "ok",
                       value |-> [sourceType |-> sourceType,
                                  suggestedFoundationComponents |->
                                      FindSimilarComponents(features,
                                          built.index[catalogName].items,
                                          foundationTarget),
                                  breakingChanges |-> breakingChanges]],
          cache |-> built.cache]

AnalyzePluginForRefactoring(sourceCode, foundationTarget, c, built) ==
    Analysis("custom-plugin", ParsePlugin(sourceCode), built,
             PluginFeatures(sourceCode), "plugins", foundationTarget, c,
             IdentifyPluginBreakingChanges(sourceCode))

AnalyzeComponentForRefactoring(sourceCode, foundationTarget, c, built) ==
    Analysis("custom-component", ParseComponent(sourceCode), built,
             ComponentFeatures(sourceCode), "components", foundationTarget, c,
             IdentifyComponentBreakingChanges(sourceCode))

\* the call and what it leaves in the cache
Analyze(request, c, built) ==
    IF request.sourceType = "custom-plugin"
    THEN AnalyzePluginForRefactoring(request.sourceCode, request.foundationTarget, c, built)
    ELSE AnalyzeComponentForRefactoring(request.sourceCode, request.foundationTarget,
                                        c, built)

Finished(r) == rres' = r.outcome /\ cache' = r.cache

\* analyzeForRefactoring(sourceCode, sourceType, foundationTarget)
AnalyzeForRefactoring(walkThrows) ==
    /\ rpc = "ready"
    /\ Finished(Analyze(rq, cache, BuildIndexAlone(cache, fs, root, 1, walkThrows)))
    /\ rpc' = "done"
    /\ UNCHANGED <<root, fs, pc, op, opId, pending, local, ret, warns, failedBy, hist,
                   after, stable, nOps, nFsChanges, rq>>

\* the source texts analysed: any set of the words below, under each
\* outcome of the two grammars
PluginWords == {"dropdown", "select", "accordion", "Modal", "carousel", "tooltip", "form"}
ComponentWords == {"button", "Card", "card", "badge", "alert", "callout", "grid"}

\* the substrings that the breaking-change checks look for
PluginMarkers == {"addEventListener", "classList", "dispatchEvent", "destroy", "ARIA", "aria-"}
ComponentMarkers == {"px", "rem", "!default", "@mixin", "@include", "hardcoded colors"}

RefactorSources ==
    {Source(js, scss, <<>>, <<>>, ws) :
        js \in BOOLEAN, scss \in BOOLEAN,
        ws \in (SUBSET PluginWords) \cup (SUBSET ComponentWords)
                  \cup (SUBSET PluginMarkers) \cup (SUBSET ComponentMarkers)}

Targets ==
    { <<>>, << <<>> >>, << <<"button">> >>, << <<"tabs">> >>, << <<"orbit">> >> }

RefactorInit ==
    /\ root = PlainRoot
    /\ fs \in InitFs
    /\ \E warm \in BOOLEAN :
          cache = IF warm
                  THEN BuildIndexAlone([k \in CacheKeyNames |-> <<>>], fs, root, 0, FALSE).cache
                  ELSE [k \in CacheKeyNames |-> <<>>]
    /\ pc = [p \in Procs |-> "idle"]
    /\ op = [p \in Procs |-> "none"]
    /\ opId = [p \in Procs |-> 0]
    /\ pending = [p \in Procs |-> {}]
    /\ local = [p \in Procs |-> [k \in Kinds |-> NoCatalog]]
    /\ ret = [p \in Procs |-> <<>>]
    /\ warns = [p \in Procs |-> [k \in Kinds |-> 0]]
    /\ failedBy = [p \in Procs |-> ""]
    /\ hist = NoHistory
    /\ after = [p \in Procs |-> NoFacts]
    /\ stable = [p \in Procs |-> TRUE]
    /\ nOps = 0
    /\ nFsChanges = 0
    /\ rq \in [sourceCode : RefactorSources,
               sourceType : {"custom-plugin", "custom-component"},
               foundationTarget : Targets]
    /\ rpc = "ready"
    /\ rres = NoOutcome
    /\ PatternIdle
    /\ SassIdle
    /\ HandlersIdle
    /\ ServerIdle

RefactorNext ==
    /\ \E walkThrows \in BOOLEAN : AnalyzeForRefactoring(walkThrows)
    /\ UNCHANGED <<pavars, sdvars, hdvars, svvars>>

SpecRefactor == RefactorInit /\ [][RefactorNext]_vars

----------------------------------------------------------------------------
(* engines/PluginAnalyzer.ts *)

Call(callee, literal, value, sole) ==
    [callee |-> callee, literal |-> literal, value |-> value, sole |-> sole]

\* words made of letters and digits only; UpperInitial are those that start
\* with a capital letter
AlnumWords == UpperInitial \cup {"my", "plugin", "tabs", "box", "2"}

\* /^[A-Z][a-zA-Z0-9]*$/.test(className)
IsPascalCase(className) ==
    /\ className # <<>>
    /\ className[1] \in UpperInitial
    /\ \A i \in 1..Len(className) : className[i] \in AlnumWords

RECURSIVE ScanTriggerEvents(_)
\* [...code.matchAll(/\.trigger\(['"]([^'"]+)['"]\)/g)].map(m => m[1]):
\* a trigger call whose only argument is a non-empty string literal
ScanTriggerEvents(calls) ==
    IF calls = <<>> THEN <<>>
    ELSE (IF /\ Head(calls).callee = "trigger"
             /\ Head(calls).literal
             /\ Head(calls).sole
             /\ Head(calls).value # <<>>
          THEN <<Head(calls).value>> ELSE <<>>) \o ScanTriggerEvents(Tail(calls))

\* mutant: every event found has to be namespaced
EveryEventNamespaced(events) ==
    \A i \in 1..Len(events) : Includes(events[i], <<".zf.">>)

\* events.some(e => e.includes('.zf.')) || events.length === 0
EventNamingOk(events) ==
    \/ \E i \in 1..Len(events) : Includes(events[i], <<".zf.">>)
    \/ Len(events) = 0

Issue(severity, message) == [severity |-> severity, message |-> message]

Min(a, b) == IF a < b THEN a ELSE b

MissingMethods(parsed) ==
    SelectSeq(<< <<"_init">>, <<"_destroy">> >>, LAMBDA m : ~SeqHas(parsed.methods, m))

\* mutant: the constructor earns nothing
ArchitectureWithoutConstructor(parsed) ==
    Min((IF parsed.extendsClass = <<"Plugin">> THEN 30 ELSE 0)
        + (IF MissingMethods(parsed) = <<>> THEN 40 ELSE 0), 100)

ArchitectureScore(parsed) ==
    Min((IF parsed.extendsClass = <<"Plugin">> THEN 30 ELSE 0)
        + (IF MissingMethods(parsed) = <<>> THEN 40 ELSE 0)
        + (IF SeqHas(parsed.methods, <<"constructor">>) THEN 10 ELSE 0), 100)

ArchitectureIssues(parsed) ==
    (IF parsed.extendsClass = <<"Plugin">> THEN <<>>
     ELSE <<Issue("error", <<"Plugin must extend the Plugin base class">>)>>)
    \o [i \in 1..Len(MissingMethods(parsed)) |->
            Issue("error", <<"Missing required method: ">> \o MissingMethods(parsed)[i])]
    \o (IF SeqHas(parsed.methods, <<"constructor">>) THEN <<>>
        ELSE <<Issue("warning", <<"Plugin should have a constructor">>)>>)

HasJSDoc(code) == "/**" \in code.words /\ "@class" \in code.words

\* mutant: no base points
ConventionsWithoutBase(parsed, code) ==
    Min((IF IsPascalCase(parsed.className) THEN 30 ELSE 0)
        + (IF HasJSDoc(code) THEN 20 ELSE 0)
        + (IF EventNamingOk(ScanTriggerEvents(code.calls)) THEN 20 ELSE 0), 100)

\* conventionsScore after Math.min(conventionsScore + 30, 100)
ConventionsScore(parsed, code) ==
    Min((IF IsPascalCase(parsed.className) THEN 30 ELSE 0)
        + (IF HasJSDoc(code) THEN 20 ELSE 0)
        + (IF EventNamingOk(ScanTriggerEvents(code.calls)) THEN 20 ELSE 0)
        + 30, 100)

ConventionsIssues(parsed, code) ==
    (IF IsPascalCase(parsed.className) THEN <<>>
     ELSE <<Issue("warning", <<"Plugin class name should be PascalCase">>)>>)
    \o (IF HasJSDoc(code) THEN <<>>
        ELSE <<Issue("info", <<"Add JSDoc comments to your plugin">>)>>)
    \o (IF EventNamingOk(ScanTriggerEvents(code.calls)) THEN <<>>
        ELSE <<Issue("warning", <<"Events should use .zf.{plugin} namespace">>)>>)

HasAria(code) == "aria-" \in code.words \/ "role=" \in code.words
HasKeyboard(code) == "Keyboard" \in code.words \/ "KEYS" \in code.words
HasFocus(code) == "focus()" \in code.words \/ "$element.focus" \in code.words

AccessibilityScore(code) ==
    Min((IF HasAria(code) THEN 40 ELSE 0)
        + (IF HasKeyboard(code) THEN 30 ELSE 0)
        + (IF HasFocus(code) THEN 30 ELSE 0), 100)

AccessibilityIssues(code) ==
    (IF HasAria(code) THEN <<>>
     ELSE <<Issue("warning",
                  <<"Plugin should implement ARIA attributes for accessibility">>)>>)
    \o (IF HasKeyboard(code) THEN <<>>
        ELSE <<Issue("info", <<"Consider adding keyboard navigation support">>)>>)

\* (architectureScore + conventionsScore + accessibilityScore) / 3, kept
\* exact as the whole part and the remaining thirds
OverallScore(a, c, x) == [whole |-> (a + c + x) \div 3, thirds |-> (a + c + x) % 3]

\* mutant: overallScore > n
Exceeds(score, n) == score.whole > n \/ (score.whole = n /\ score.thirds > 0)

\* overallScore >= n, for a whole number n
AtLeast(score, n) == score.whole >= n

Classify(score) ==
    IF AtLeast(score, 80) THEN "matches"
    ELSE IF AtLeast(score, 50) THEN "partial-match"
    ELSE "no-match"

AxisSuggestions(a, c, x) ==
    (IF a < 80 THEN <<"Review Foundation plugin architecture guide">> ELSE <<>>)
    \o (IF c < 80 THEN <<"Follow Foundation naming conventions">> ELSE <<>>)
    \o (IF x < 80 THEN <<"Improve accessibility with ARIA and keyboard support">> ELSE <<>>)

Report(matches, issues, a, c, x, suggestions) ==
    [matches |-> matches, issues |-> issues,
     conformance |-> [architecture |-> a, conventions |-> c, accessibility |-> x],
     suggestions |-> suggestions]

ParseFailureReport ==
    Report("no-match", <<Issue("error", <<"Failed to parse code">>)>>, 0, 0, 0,
           <<"Fix syntax errors before analyzing">>)

NotImplementedReport ==
    Report("no-match", <<>>, 0, 0, 0,
           <<"Analysis for this pattern type is not yet implemented">>)

\* mutant: the parse failure leaves analyzePluginPattern
PropagatedFailure(error) == [status |-> "error", error |-> error]

\* catch (error) { logger.error(...); return { ... } }
CaughtFailure(error) == [status |-> "ok", value |-> ParseFailureReport]

AnalyzePluginPattern(code) ==
    LET parsed == ParsePlugin(code)
        a == ArchitectureScore(parsed.value)
        c == ConventionsScore(parsed.value, code)
        x == AccessibilityScore(code)
    IN IF ~parsed.ok THEN CaughtFailure(parsed.error)
       ELSE [status |-> "ok",
             value |-> Report(Classify(OverallScore(a, c, x)),
                              ArchitectureIssues(parsed.value)
                                \o ConventionsIssues(parsed.value, code)
                                \o AccessibilityIssues(code),
                              a, c, x, AxisSuggestions(a, c, x))]

\* fileExists(params.code): fs.access succeeds on any entry that is there
FileExists(entry) == entry.st # "absent"

\* readFile(params.code): the content, or the rejection of fs.readFile
ReadNamed(entry) ==
    IF entry.st = "file" THEN [ok |-> TRUE, value |-> entry.src]
    ELSE [ok |-> FALSE, error |-> [name |-> "Error", code |-> "readFile"]]

\* analyzePattern(params)
AnalyzePattern ==
    /\ ppc = "ready"
    /\ LET read == ReadNamed(pfile)
           code == IF FileExists(pfile) THEN read.value ELSE pq.code
       IN pres' = IF FileExists(pfile) /\ ~read.ok
                  THEN [status |-> "error", error |-> read.error]
                  ELSE IF pq.patternType = "plugin"
                  THEN AnalyzePluginPattern(code)
                  ELSE [status |-> "ok", value |-> NotImplementedReport]
    /\ ppc' = "done"
    /\ UNCHANGED <<ixvars, rfvars, pq, pfile>>

\* the class declarations, calls and marker substrings of the texts analysed
FullBody == <<Method(<<"constructor">>), Method(<<"_init">>), Method(<<"_destroy">>),
              Property(<<"defaults">>)>>

PatternDecls ==
    { <<>>,
      <<ClassDecl(TRUE, <<"My", "Plugin">>, Ident(<<"Plugin">>), FullBody)>>,
      <<ClassDecl(FALSE, <<"my", "Plugin">>, Ident(<<"Plugin">>),
                  <<Method(<<"_init">>), Method(<<"_destroy">>)>>)>>,
      <<ClassDecl(TRUE, <<"My", "_", "Plugin">>, MemberExpr(<<"Foundation", ".", "Plugin">>),
                  <<Method(<<"constructor">>), Method(<<"_init">>)>>)>>,
      <<ClassDecl(FALSE, <<"Tabs">>, NoSuper, <<Method(<<"constructor">>)>>)>>,
      <<ClassDecl(FALSE, <<"Box">>, Ident(<<"Plugin">>), <<Method(<<"constructor">>)>>)>>,
      <<ClassDecl(FALSE, <<"Tabs">>, Ident(<<"Base">>), <<Method(<<"_init">>)>>),
        ClassDecl(TRUE, <<"My", "Plugin">>, Ident(<<"Plugin">>),
                  <<Method(<<"_destroy">>), Method(<<"constructor">>)>>)>> }

PatternCalls ==
    { <<>>,
      <<Call("trigger", TRUE, <<"open", ".zf.", "tabs">>, TRUE)>>,
      <<Call("trigger", TRUE, <<"open">>, TRUE)>>,
      <<Call("trigger", TRUE, <<"open", ".zf.", "tabs">>, TRUE),
        Call("trigger", TRUE, <<"closed">>, TRUE)>>,
      <<Call("trigger", TRUE, <<"open">>, FALSE), Call("fire", TRUE, <<"done">>, TRUE)>> }

Markers ==
    {"/**", "@class", "aria-", "role=", "Keyboard", "KEYS", "focus()", "$element.focus"}

PatternSources ==
    {Source(TRUE, FALSE, ds, cs, ms) :
        ds \in PatternDecls, cs \in PatternCalls, ms \in SUBSET Markers}
    \cup {Source(FALSE, scss, <<>>, <<>>, ms) : scss \in BOOLEAN, ms \in SUBSET Markers}

\* what params.code may name on disk
NamedEntries ==
    { Absent, Unreadable, BadFile,
      [st |-> "file",
       src |-> Source(TRUE, FALSE,
                      <<ClassDecl(TRUE, <<"My", "Plugin">>, Ident(<<"Plugin">>), FullBody)>>,
                      <<Call("trigger", TRUE, <<"open", ".zf.", "tabs">>, TRUE)>>,
                      Markers)] }

PatternInit ==
    /\ IndexInit
    /\ RefactorIdle
    /\ pq \in [code : PatternSources, patternType : {"plugin", "component"}]
    /\ pfile \in NamedEntries
    /\ ppc = "ready"
    /\ pres = NoOutcome
    /\ SassIdle
    /\ HandlersIdle
    /\ ServerIdle

PatternNext == AnalyzePattern /\ UNCHANGED <<sdvars, hdvars, svvars>>

SpecPattern == PatternInit /\ [][PatternNext]_vars

----------------------------------------------------------------------------
(* utils/parser.ts: parseComponent (the four walks) and extractSassDoc *)

MaxLines == 4

\* A line of a stylesheet, by what the scans and the stylesheet grammar see
\* of it:
\*   doc       the trimmed line starts with ///, and text is what follows
\*   blank     the trimmed line is empty
\*   atMixin   the line includes "@mixin"; mixin is the name after it, or
\*             <<>> when no name follows
\*   dollar    the line includes "$"; variable is the name after the first
\*             "$", or <<>> when no name follows
\*   node      the stylesheet node the line is: "comment", "decl" (with
\*             prop), "mixin" (with mixin), "rule" or "none"
Line(doc, text, blank, atMixin, mixin, dollar, variable, node, prop) ==
    [doc |-> doc, text |-> text, blank |-> blank, atMixin |-> atMixin, mixin |-> mixin,
     dollar |-> dollar, variable |-> variable, node |-> node, prop |-> prop]

\* "/// text"
DocLine(text) == Line(TRUE, text, FALSE, FALSE, <<>>, FALSE, <<>>, "comment", <<>>)
\* ""
BlankLine == Line(FALSE, <<>>, TRUE, FALSE, <<>>, FALSE, <<>>, "none", <<>>)
\* "$name: 1rem;"
VariableLine(name) ==
    Line(FALSE, <<>>, FALSE, FALSE, <<>>, TRUE, name, "decl", <<"$">> \o name)
\* "@mixin name($pad) { }"
MixinLine(name) == Line(FALSE, <<>>, FALSE, TRUE, name, TRUE, <<"pad">>, "mixin", <<>>)
\* "content: '$';": a declaration that includes "$" with no name after it
DollarLine == Line(FALSE, <<>>, FALSE, FALSE, <<>>, TRUE, <<>>, "decl", <<"content">>)
\* ".card { }"
RuleLine == Line(FALSE, <<>>, FALSE, FALSE, <<>>, FALSE, <<>>, "rule", <<>>)

SassLines ==
    { DocLine(<<"Padding", " ", "amount">>), DocLine(<<"Gap">>), BlankLine,
      VariableLine(<<"pad">>), VariableLine(<<"gap">>), MixinLine(<<"box">>),
      DollarLine, RuleLine }

RECURSIVE TrimStart(_)
TrimStart(s) == IF s # <<>> /\ Head(s) = " " THEN TrimStart(Tail(s)) ELSE s

RECURSIVE TrimEnd(_)
TrimEnd(s) ==
    IF s # <<>> /\ s[Len(s)] = " " THEN TrimEnd(SubSeq(s, 1, Len(s) - 1)) ELSE s

\* String.prototype.trim
Trim(s) == TrimEnd(TrimStart(s))

RECURSIVE WalkComments(_, _)
\* root.walkComments(comment => { currentComment = comment.text.trim() })
WalkComments(lines, currentComment) ==
    IF lines = <<>> THEN currentComment
    ELSE WalkComments(Tail(lines),
                      IF Head(lines).node = "comment" THEN Trim(Head(lines).text)
                      ELSE currentComment)

\* description: currentComment || undefined
Described(name, currentComment) ==
    [name |-> name,
     description |-> IF currentComment = <<>> THEN <<>> ELSE <<currentComment>>]

RECURSIVE WalkDecls(_, _)
\* root.walkDecls: acc is [items, currentComment]
WalkDecls(lines, acc) ==
    IF lines = <<>> THEN acc
    ELSE WalkDecls(Tail(lines),
            IF Head(lines).node = "decl" /\ StartsWith(Head(lines).prop, <<"$">>)
            THEN [items |-> Append(acc.items,
                                   Described(Head(lines).prop, acc.currentComment)),
                  currentComment |-> <<>>]
            ELSE acc)

RECURSIVE WalkAtRules(_, _)
\* root.walkAtRules: acc is [items, currentComment]
WalkAtRules(lines, acc) ==
    IF lines = <<>> THEN acc
    ELSE WalkAtRules(Tail(lines),
            IF Head(lines).node = "mixin"
            THEN [items |-> Append(acc.items,
                                   Described(Head(lines).mixin, acc.currentComment)),
                  currentComment |-> <<>>]
            ELSE acc)

\* the walks of parseComponent in the order they run; each starts with the
\* currentComment the one before left
VariablesWalked(lines) ==
    WalkDecls(lines, [items |-> <<>>, currentComment |-> WalkComments(lines, <<>>)])

MixinsWalked(lines, declsDone) ==
    WalkAtRules(lines, [items |-> <<>>, currentComment |-> declsDone.currentComment])

ComponentRecord(lines) ==
    [variables |-> VariablesWalked(lines).items,
     mixins |-> MixinsWalked(lines, VariablesWalked(lines)).items]

\* parseComponent(code) on a stylesheet the grammar accepts
ParseSheet ==
    /\ sheet # <<>>
    /\ component = <<>>
    /\ component' = <<ComponentRecord(sheet)>>
    /\ UNCHANGED <<ixvars, rfvars, pavars, sheet, scanned, currentDoc, docs>>

\* docs[name] = currentDoc.trim(); currentDoc = ''
Recorded(name, buffer, d) ==
    [currentDoc |-> <<>>, docs |-> [d EXCEPT ![name] = <<Trim(buffer)>>]]

\* one iteration of the loop of extractSassDoc
ScanStep(line, buffer, d) ==
    IF line.doc THEN [currentDoc |-> buffer \o Trim(line.text) \o <<" ">>, docs |-> d]
    ELSE IF buffer # <<>> /\ line.atMixin
    THEN (IF line.mixin # <<>> THEN Recorded(line.mixin, buffer, d)
          ELSE [currentDoc |-> buffer, docs |-> d])
    ELSE IF buffer # <<>> /\ line.dollar
    THEN (IF line.variable # <<>> THEN Recorded(line.variable, buffer, d)
          ELSE [currentDoc |-> buffer, docs |-> d])
    ELSE IF buffer # <<>> /\ line.blank THEN [currentDoc |-> buffer, docs |-> d]
    ELSE IF buffer # <<>> THEN [currentDoc |-> <<>>, docs |-> d]
    ELSE [currentDoc |-> buffer, docs |-> d]

Stepped(r) == currentDoc' = r.currentDoc /\ docs' = r.docs

\* extractSassDoc(code): the loop body for line i = scanned
ScanLine ==
    /\ scanned < Len(sheet)
    /\ Stepped(ScanStep(sheet[scanned + 1], currentDoc, docs))
    /\ scanned' = scanned + 1
    /\ UNCHANGED <<ixvars, rfvars, pavars, sheet, component>>

Sheets == UNION {[1..n -> SassLines] : n \in 1..MaxLines}

SassInit ==
    /\ IndexInit
    /\ fs = AllGood
    /\ RefactorIdle
    /\ PatternIdle
    /\ HandlersIdle
    /\ ServerIdle
    /\ sheet \in Sheets
    /\ scanned = 0
    /\ currentDoc = <<>>
    /\ docs = NoDocs
    /\ component = <<>>

SassNext == (ParseSheet \/ ScanLine) /\ UNCHANGED <<hdvars, svvars>>

SpecSass == SassInit /\ [][SassNext]_vars

----------------------------------------------------------------------------
(* generators/PluginGenerator.ts *)

\* selector || `[data-${slug}]`
DataAttr(params) ==
    IF params.selector # <<>> /\ params.selector[1] # ""
    THEN params.selector[1] ELSE "[data-" \o params.slug \o "]"

\* features?.keyboard ?? false, and the same for the other flags
FeatureFlag(params, flag) ==
    IF params.features = <<>> THEN FALSE ELSE params.features[1][flag]

\* features?.events ?? []
CustomEvents(params) ==
    IF params.features = <<>> THEN [array |-> TRUE, items |-> <<>>]
    ELSE params.features[1].events

\* customEvents.map(...) throws on a value that is no array
GeneratePluginCode(params) ==
    IF ~CustomEvents(params).array
    THEN [ok |-> FALSE,
          error |-> [name |-> "TypeError",
                     message |-> <<"customEvents.map is not a function">>]]
    ELSE [ok |-> TRUE,
          value |-> [module |-> "foundation." \o params.slug,
                     class |-> params.name,
                     keyboard |-> FeatureFlag(params, "keyboard"),
                     nesting |-> FeatureFlag(params, "nesting"),
                     fires |-> <<"init">> \o CustomEvents(params).items
                                  \o <<"destroyed">>,
                     dataAttr |-> DataAttr(params)]]

GenerateTestCode(params) == [describe |-> params.name, slug |-> params.slug]

GenerateDocsMarkdown(params) ==
    [title |-> params.name, description |-> params.description,
     js |-> "js/foundation." \o params.slug \o ".js"]

GetIntegrationSteps(params) ==
    << "Import " \o params.name \o " in js/entries/foundation.js: import { "
          \o params.name \o " } from '../foundation." \o params.slug \o "';",
       "Register plugin: Foundation.plugin(" \o params.name \o ", '"
          \o params.name \o "');",
       "Add to exports in js/entries/foundation.js: export { " \o params.name \o " };",
       "Include in build configuration if needed",
       "Run tests: yarn test:javascript:units",
       "Update documentation index if necessary" >>

\* mutant: the test file and the documentation are always generated
EveryFile(params) == {"plugin", "test", "docs"}

\* the keys of files that generate() sets
RequestedFiles(params) ==
    {"plugin"} \cup (IF params.includeTests THEN {"test"} ELSE {})
               \cup (IF params.includeDocs THEN {"docs"} ELSE {})

FilePath(key, slug) ==
    CASE key = "plugin" -> "js/foundation." \o slug \o ".js"
      [] key = "test" -> "test/javascript/" \o slug \o ".spec.js"
      [] key = "docs" -> "docs/pages/" \o slug \o ".md"

FileContent(key, params, code) ==
    CASE key = "plugin" -> code
      [] key = "test" -> GenerateTestCode(params)
      [] key = "docs" -> GenerateDocsMarkdown(params)

\* the try block of generate() once the plugin code is there
Generated(params, code) ==
    IF ~code.ok
    THEN [status |-> "error", files |-> <<>>, integrationSteps |-> <<>>,
          error |-> code.error.message]
    ELSE [status |-> "success",
          files |-> [key \in RequestedFiles(params) |->
                        [path |-> FilePath(key, params.slug),
                         content |-> FileContent(key, params, code.value)]],
          integrationSteps |-> GetIntegrationSteps(params)]

\* PluginGenerator.generate(params)
Generate(params) == Generated(params, GeneratePluginCode(params))

----------------------------------------------------------------------------
(* handlers/tools.ts and handlers/resources.ts *)

Resolved(value) == [status |-> "ok", value |-> value]
Rejected(error) == [status |-> "error", error |-> error]

\* throw new Error(message)
PlainError(message) == [name |-> "Error", message |-> message]

\* what XSchema.parse(args) throws
ZodError == [name |-> "ZodError", message |-> <<"[ issues ]">>]

\* reading a property of undefined
TypeErrorOfUndefined(property) ==
    [name |-> "TypeError",
     message |-> <<"Cannot read properties of undefined (reading '", property, "')">>]

\* error.message
MessageOf(error) ==
    IF "message" \in DOMAIN error THEN error.message
    ELSE IF error.name = "ParseError"
    THEN <<IF error.grammar = "script" THEN "Failed to parse JavaScript plugin: "
           ELSE "Failed to parse SCSS component: ", "cause">>
    ELSE <<error.code>>

\* error.stack
StackOf(error) == <<error.name, ": ">> \o MessageOf(error) \o <<"\n    at ">>

ToolNames ==
    {"generate_plugin", "generate_component", "analyze_pattern",
     "find_similar_pattern", "query_architecture", "refactor_to_foundation",
     "validate_plugin", "get_plugin_reference", "get_component_reference",
     "wordpress_integration_guide"}

\* the handlers that call this.indexer.buildIndex()
IndexTools ==
    {"find_similar_pattern", "refactor_to_foundation", "get_plugin_reference",
     "get_component_reference"}

\* `${slug}` of args.slug: <<>> is undefined
SlugText(slug) == IF slug = <<>> THEN <<"undefined">> ELSE slug[1]

\* handleGeneratePlugin
HandleGeneratePlugin(args) ==
    IF ~args.conforms THEN Rejected(ZodError) ELSE Resolved(Generate(args.params))

\* handleGenerateComponent: the files of the component are not modelled
HandleGenerateComponent(args) ==
    IF ~args.conforms THEN Rejected(ZodError)
    ELSE Resolved([status |-> "success", slug |-> args.params.slug])

\* analyzePattern(params) as a function of the entry that params.code names
AnalyzePatternOf(code, patternType, entry, read) ==
    IF FileExists(entry) /\ ~read.ok THEN Rejected(read.error)
    ELSE IF patternType = "plugin"
    THEN AnalyzePluginPattern(IF FileExists(entry) THEN read.value ELSE code)
    ELSE Resolved(NotImplementedReport)

\* handleAnalyzePattern
HandleAnalyzePattern(args) ==
    IF ~args.conforms THEN Rejected(ZodError)
    ELSE AnalyzePatternOf(args.code, args.kind, args.entry, ReadNamed(args.entry))

RECURSIVE Messages(_, _)
Messages(issues, severity) ==
    IF issues = <<>> THEN <<>>
    ELSE (IF Head(issues).severity = severity THEN <<Head(issues).message>> ELSE <<>>)
         \o Messages(Tail(issues), severity)

\* the validation object of handleValidatePlugin
Validation(result) ==
    IF result.status # "ok" THEN result
    ELSE Resolved([valid |-> result.value.matches = "matches",
                   errors |-> Messages(result.value.issues, "error"),
                   warnings |-> Messages(result.value.issues, "warning"),
                   coverage |-> [required_methods |->
                                    result.value.conformance.architecture,
                                 event_handling |->
                                    result.value.conformance.conventions,
                                 accessibility |->
                                    result.value.conformance.accessibility]])

\* handleValidatePlugin
HandleValidatePlugin(args) ==
    IF ~args.conforms THEN Rejected(ZodError)
    ELSE Validation(AnalyzePatternOf(args.code, "plugin", args.entry,
                                     ReadNamed(args.entry)))

\* `${item.name} ${item.description}`.toLowerCase().includes(query)
MatchesQuery(item, query) ==
    \E i \in 1..Len(item.name) : ToLowerCase(item.name[i]) = query

\* handleFindSimilarPattern after buildIndex(); args.kind "" is no type
FoundSimilar(args, index) ==
    LET items == (IF args.kind \in {"", "plugin"} THEN index.plugins.items ELSE <<>>)
                 \o (IF args.kind \in {"", "component"}
                     THEN index.components.items ELSE <<>>)
        found == SelectSeq(items, LAMBDA item : MatchesQuery(item, ToLowerCase(args.query)))
    IN [results |-> [i \in 1..Min(Len(found), 5) |->
                        [name |-> found[i].name, similarity |-> 75]]]

HandleFindSimilarPattern(args, built) ==
    IF ~args.conforms THEN Rejected(ZodError)
    ELSE IF ~built.ok THEN Rejected(built.error)
    ELSE Resolved(FoundSimilar(args, built.index))

\* getArchitectureAnswer(question)
GetArchitectureAnswer(question) ==
    IF ToLowerCase(question) = "keyboard"
    THEN [answer |-> "keyboard", relatedTopics |-> <<"Accessibility", "Event Handling">>]
    ELSE IF ToLowerCase(question) = "event"
    THEN [answer |-> "event", relatedTopics |-> <<"jQuery Events", "Plugin Lifecycle">>]
    ELSE [answer |-> "documentation",
          relatedTopics |-> <<"Plugin Development", "Component Styling">>]

\* handleQueryArchitecture
HandleQueryArchitecture(args) ==
    IF ~args.conforms THEN Rejected(ZodError)
    ELSE Resolved(GetArchitectureAnswer(args.query))

\* handleRefactorToFoundation
HandleRefactorToFoundation(args, c, built) ==
    IF ~args.conforms THEN Rejected(ZodError)
    ELSE Analyze([sourceCode |-> args.code, sourceType |-> "custom-" \o args.kind,
                  foundationTarget |-> args.slug], c, built).outcome

\* index.plugins.find(...) and the check that follows it
Reference(items, slug, notFound) ==
    IF FindBySlug(items, slug) = <<>>
    THEN Rejected(PlainError(<<notFound, SlugText(<<slug>>)>>))
    ELSE Resolved(FindBySlug(items, slug)[1])

\* handleGetPluginReference: const { slug } = args, no schema
HandleGetPluginReference(args, built) ==
    IF ~built.ok THEN Rejected(built.error)
    ELSE IF args.slug = <<>>
    THEN Rejected(PlainError(<<"Plugin not found: ", "undefined">>))
    ELSE Reference(built.index.plugins.items, args.slug[1], "Plugin not found: ")

\* handleGetComponentReference
HandleGetComponentReference(args, built) ==
    IF ~built.ok THEN Rejected(built.error)
    ELSE IF args.slug = <<>>
    THEN Rejected(PlainError(<<"Component not found: ", "undefined">>))
    ELSE Reference(built.index.components.items, args.slug[1], "Component not found: ")

\* handleWordPressIntegrationGuide: the text of the guide is not modelled
HandleWordPressIntegrationGuide(args) ==
    IF ~args.conforms THEN Rejected(ZodError) ELSE Resolved([guide |-> "wordpress"])

\* the switch of callTool
Dispatch(name, args, c, built) ==
    CASE name = "generate_plugin" -> HandleGeneratePlugin(args)
      [] name = "generate_component" -> HandleGenerateComponent(args)
      [] name = "analyze_pattern" -> HandleAnalyzePattern(args)
      [] name = "find_similar_pattern" -> HandleFindSimilarPattern(args, built)
      [] name = "query_architecture" -> HandleQueryArchitecture(args)
      [] name = "refactor_to_foundation" -> HandleRefactorToFoundation(args, c, built)
      [] name = "validate_plugin" -> HandleValidatePlugin(args)
      [] name = "get_plugin_reference" -> HandleGetPluginReference(args, built)
      [] name = "get_component_reference" -> HandleGetComponentReference(args, built)
      [] name = "wordpress_integration_guide" -> HandleWordPressIntegrationGuide(args)
      [] OTHER -> Rejected(PlainError(<<"Unknown tool: ", name>>))

\* the cache once the handler has run: the handlers of IndexTools call
\* buildIndex() unless the schema (or the parser, in analyzeForRefactoring)
\* has thrown before
CacheAfter(name, args, c, built) ==
    IF name \notin IndexTools THEN c
    ELSE IF name \in {"get_plugin_reference", "get_component_reference"}
    THEN built.cache
    ELSE IF ~args.conforms THEN c
    ELSE IF name = "find_similar_pattern" THEN built.cache
    ELSE Analyze([sourceCode |-> args.code, sourceType |-> "custom-" \o args.kind,
                  foundationTarget |-> args.slug], c, built).cache

\* mutant: the error leaves callTool
ErrorThrown(error) == [status |-> "thrown", error |-> error]

\* catch (error) { ...; return { content: [...], isError: true } }
ErrorPayload(error) ==
    [status |-> "returned",
     value |-> [content |-> <<[type |-> "text",
                               text |-> <<"Error: ">> \o MessageOf(error)]>>,
                isError |-> TRUE]]

\* return { content: [{ type: 'text', text: JSON.stringify(result, null, 2) }] }
ResultPayload(result) ==
    [status |-> "returned",
     value |-> [content |-> <<[type |-> "text", text |-> [json |-> result]]>>]]

Responded(outcome) ==
    /\ tres' = IF outcome.status = "ok" THEN ResultPayload(outcome.value)
               ELSE ErrorPayload(outcome.error)
    /\ traised' = IF outcome.status = "ok" THEN <<>> ELSE <<outcome.error>>

Served(name, args, c, built) ==
    /\ Responded(Dispatch(name, args, c, built))
    /\ cache' = CacheAfter(name, args, c, built)

\* callTool(name, args)
CallTool(walkThrows) ==
    /\ tpc = "ready"
    /\ tq.via = "tool"
    /\ Served(tq.name, tq.args, cache, BuildIndexAlone(cache, fs, root, 1, walkThrows))
    /\ tpc' = "done"
    /\ UNCHANGED <<root, fs, pc, op, opId, pending, local, ret, warns, failedBy, hist,
                   after, stable, nOps, nFsChanges, rfvars, pavars, sdvars, tq>>

\* { contents: [{ uri, mimeType, text }] }
Contents(uri, mimeType, text) ==
    Resolved([contents |-> <<[uri |-> uri, mimeType |-> mimeType, text |-> text]>>])

\* the resources with a fixed text
StaticUris ==
    {"foundation://build/config", "foundation://architecture/plugins",
     "foundation://patterns/tests/javascript", "foundation://patterns/tests/sass",
     "foundation://integrations/wordpress"}

\* uri.match(/^foundation:\/\/(plugins|components)\/([^\/]+)\/(template|docs)$/)
MatchesDynamic(uri, catalog) ==
    /\ Len(uri) = 6
    /\ uri[1] = "foundation://" /\ uri[2] = catalog /\ uri[3] = "/" /\ uri[5] = "/"
    /\ uri[4] # ""
    /\ uri[6] \in {"template", "docs"}

\* getPluginsIndex and getComponentsIndex
GetIndex(uri, catalog, built) ==
    IF ~built.ok THEN Rejected(built.error)
    ELSE Contents(uri, "application/json", [json |-> built.index[catalog].items])

\* getPluginDocs(slug): plugin.name is read whatever find returned
GetPluginDocs(uri, slug, built) ==
    IF ~built.ok THEN Rejected(built.error)
    ELSE IF FindBySlug(built.index.plugins.items, <<slug>>) = <<>>
    THEN Rejected(TypeErrorOfUndefined("name"))
    ELSE Contents(uri, "text/markdown",
                  FindBySlug(built.index.plugins.items, <<slug>>)[1].name)

\* getComponentDocs(slug)
GetComponentDocs(uri, slug, built) ==
    IF ~built.ok THEN Rejected(built.error)
    ELSE IF FindBySlug(built.index.components.items, <<slug>>) = <<>>
    THEN Rejected(PlainError(<<"Component not found: ", slug>>))
    ELSE Contents(uri, "text/markdown",
                  FindBySlug(built.index.components.items, <<slug>>)[1].name)

\* readResource(uri)
Resource(uri, built) ==
    IF uri = <<"foundation://plugins/index">> THEN GetIndex(uri, "plugins", built)
    ELSE IF uri = <<"foundation://components/index">>
    THEN GetIndex(uri, "components", built)
    ELSE IF Len(uri) = 1 /\ uri[1] \in StaticUris
    THEN Contents(uri, "text", <<"fixed text of ", uri[1]>>)
    ELSE IF MatchesDynamic(uri, "plugins")
    THEN (IF uri[6] = "template"
          THEN Contents(uri, "text/plain",
                        <<"// Use generate_plugin tool to create plugin template">>)
          ELSE GetPluginDocs(uri, uri[4], built))
    ELSE IF MatchesDynamic(uri, "components")
    THEN (IF uri[6] = "template"
          THEN Contents(uri, "text/plain",
                        <<"// Use generate_component tool to create component template">>)
          ELSE GetComponentDocs(uri, uri[4], built))
    ELSE Rejected(PlainError(<<"Resource not found: ">> \o uri))

\* the reads that call this.indexer.buildIndex()
ReadsIndex(uri) ==
    \/ uri \in {<<"foundation://plugins/index">>, <<"foundation://components/index">>}
    \/ (MatchesDynamic(uri, "plugins") \/ MatchesDynamic(uri, "components"))
          /\ uri[6] = "docs"

Read(uri, c, built) ==
    /\ tres' = IF Resource(uri, built).status = "ok"
               THEN [status |-> "returned", value |-> Resource(uri, built).value]
               ELSE [status |-> "thrown", error |-> Resource(uri, built).error]
    /\ traised' = IF Resource(uri, built).status = "ok" THEN <<>>
                  ELSE <<Resource(uri, built).error>>
    /\ cache' = IF ReadsIndex(uri) THEN built.cache ELSE c

\* readResource(uri) as the server's request handler awaits it
ReadResource(walkThrows) ==
    /\ tpc = "ready"
    /\ tq.via = "resource"
    /\ Read(tq.uri, cache, BuildIndexAlone(cache, fs, root, 1, walkThrows))
    /\ tpc' = "done"
    /\ UNCHANGED <<root, fs, pc, op, opId, pending, local, ret, warns, failedBy, hist,
                   after, stable, nOps, nFsChanges, rfvars, pavars, sdvars, tq>>

\* generate(params) called on the generator itself
GeneratePlugin ==
    /\ tpc = "ready"
    /\ tq.via = "generate"
    /\ tres' = [status |-> "returned", value |-> Generate(tq.params)]
    /\ traised' = <<>>
    /\ tpc' = "done"
    /\ UNCHANGED <<ixvars, rfvars, pavars, sdvars, tq>>

\* the parameters of generate(): features absent or given, events a list of
\* names or (outside the declared type) no list at all
EventLists ==
    {[array |-> TRUE, items |-> <<>>], [array |-> TRUE, items |-> <<"opened">>],
     [array |-> FALSE, items |-> <<>>]}

GeneratorParams ==
    [name : {"TestPlugin", "Tabs"}, slug : {"test-plugin", "tabs"},
     description : {"A test plugin"}, selector : {<<>>, <<"">>, <<".tabs">>},
     features : {<<>>} \cup
                {<<f>> : f \in [keyboard : BOOLEAN, nesting : {FALSE},
                                stateManagement : {TRUE}, events : EventLists]},
     includeTests : BOOLEAN, includeDocs : BOOLEAN]

\* GeneratePluginParams: the type of the schema's output
ValidParams(params) == params.features = <<>> \/ params.features[1].events.array

DefaultParams ==
    [name |-> "Tabs", slug |-> "tabs", description |-> "A test plugin",
     selector |-> <<>>, features |-> <<>>, includeTests |-> TRUE, includeDocs |-> TRUE]

\* the texts handed to the tools
ToolCodes ==
    {NoSource,
     Source(TRUE, TRUE,
            <<ClassDecl(TRUE, <<"My", "Plugin">>, Ident(<<"Plugin">>), FullBody)>>,
            <<>>, {"dropdown", "alert", "callout", "aria-", "Keyboard", "focus()"})}

SlugArgs == {<<>>, << <<"tabs">> >>, << <<"button">> >>, << <<"orbit">> >>}

\* the argument objects tried for each tool; conforms says whether the
\* object passes the schema of the tool
ArgsOf(name) ==
    [conforms : BOOLEAN,
     slug : IF name \in {"get_plugin_reference", "get_component_reference",
                         "refactor_to_foundation"} THEN SlugArgs ELSE {<<>>},
     code : IF name \in {"analyze_pattern", "validate_plugin",
                         "refactor_to_foundation"} THEN ToolCodes ELSE {NoSource},
     kind : IF name \in {"analyze_pattern", "refactor_to_foundation"}
            THEN {"plugin", "component"}
            ELSE IF name = "find_similar_pattern" THEN {"", "plugin", "component"}
            ELSE {"plugin"},
     entry : IF name \in {"analyze_pattern", "validate_plugin"}
             THEN {Absent, Unreadable} ELSE {Absent},
     query : IF name = "find_similar_pattern" THEN {"tabs", "Button", "orbit"}
             ELSE IF name = "query_architecture" THEN {"Keyboard", "event", "tabs"}
             ELSE {"tabs"},
     params : {DefaultParams}]

ToolRequests ==
    UNION {[via : {"tool"}, name : {name}, args : ArgsOf(name)] :
              name \in ToolNames \cup {"delete_plugin"}}

ResourceUris ==
    {<<"foundation://plugins/index">>, <<"foundation://components/index">>,
     <<"foundation://nothing">>}
    \cup {<<u>> : u \in StaticUris}
    \cup {<<"foundation://", catalog, "/", slug, "/", leaf>> :
             catalog \in {"plugins", "components", "utilities"},
             slug \in {"tabs", "button", "orbit", ""},
             leaf \in {"template", "docs", "source"}}

ResourceRequests == [via : {"resource"}, uri : ResourceUris]

GenerateRequests == [via : {"generate"}, params : GeneratorParams]

HandlersInit ==
    /\ root = PlainRoot
    /\ fs \in InitFs
    /\ \E warm \in BOOLEAN :
          cache = IF warm
                  THEN BuildIndexAlone([k \in CacheKeyNames |-> <<>>], fs, root, 0, FALSE).cache
                  ELSE [k \in CacheKeyNames |-> <<>>]
    /\ pc = [p \in Procs |-> "idle"]
    /\ op = [p \in Procs |-> "none"]
    /\ opId = [p \in Procs |-> 0]
    /\ pending = [p \in Procs |-> {}]
    /\ local = [p \in Procs |-> [k \in Kinds |-> NoCatalog]]
    /\ ret = [p \in Procs |-> <<>>]
    /\ warns = [p \in Procs |-> [k \in Kinds |-> 0]]
    /\ failedBy = [p \in Procs |-> ""]
    /\ hist = NoHistory
    /\ after = [p \in Procs |-> NoFacts]
    /\ stable = [p \in Procs |-> TRUE]
    /\ nOps = 0
    /\ nFsChanges = 0
    /\ RefactorIdle
    /\ PatternIdle
    /\ SassIdle
    /\ ServerIdle
    /\ tq \in ToolRequests \cup ResourceRequests \cup GenerateRequests
    /\ tpc = "ready"
    /\ tres = NoOutcome
    /\ traised = <<>>

HandlersNext ==
    /\ \/ \E walkThrows \in BOOLEAN : CallTool(walkThrows)
       \/ \E walkThrows \in BOOLEAN : ReadResource(walkThrows)
       \/ GeneratePlugin
    /\ UNCHANGED svvars

SpecHandlers == HandlersInit /\ [][HandlersNext]_vars

----------------------------------------------------------------------------
(* utils/parser.ts: parsePlugin called on texts with several classes *)

\* the number of class declarations in a text
MaxClasses == 2

\* await parsePlugin(code)
ParsePluginCall ==
    /\ tpc = "ready"
    /\ tq.via = "parse"
    /\ tres' = IF ParsePlugin(tq.code).ok
               THEN [status |-> "returned", value |-> ParsePlugin(tq.code).value]
               ELSE [status |-> "thrown", error |-> ParsePlugin(tq.code).error]
    /\ traised' = IF ParsePlugin(tq.code).ok THEN <<>>
                  ELSE <<ParsePlugin(tq.code).error>>
    /\ tpc' = "done"
    /\ UNCHANGED <<ixvars, rfvars, pavars, sdvars, tq>>

\* class bodies: a method, an accessor pair, two methods in either order, a
\* property, a method and a property of one name
ClassBodies ==
    { <<>>,
      <<Method(<<"open">>)>>,
      <<Method(<<"open">>), Method(<<"open">>)>>,
      <<Method(<<"open">>), Method(<<"close">>)>>,
      <<Method(<<"close">>), Method(<<"open">>)>>,
      <<Property(<<"open">>), Method(<<"open">>), Property(<<"open">>)>> }

ClassDecls ==
    {ClassDecl(exported, id, super, members) :
        exported \in BOOLEAN, id \in {<<"Tabs">>, <<"Box">>},
        super \in {NoSuper, Ident(<<"Plugin">>), Ident(<<"Base">>)},
        members \in ClassBodies}

ScriptTexts ==
    {Source(TRUE, FALSE, decls, <<>>, {}) :
        decls \in UNION {[1..n -> ClassDecls] : n \in 0..MaxClasses}}
    \cup {NoSource}

ParserInit ==
    /\ IndexInit
    /\ fs = AllGood
    /\ RefactorIdle
    /\ PatternIdle
    /\ SassIdle
    /\ ServerIdle
    /\ tq \in [via : {"parse"}, code : ScriptTexts]
    /\ tpc = "ready"
    /\ tres = NoOutcome
    /\ traised = <<>>

ParserNext == ParsePluginCall /\ UNCHANGED svvars

SpecParser == ParserInit /\ [][ParserNext]_vars

----------------------------------------------------------------------------
(* FoundationMCPServer (in engines/PluginAnalyzer.ts) and main: start()   *)
(* and the requests that the connected transport delivers                 *)

MaxRequests == 2

\* new FoundationMCPServer(config): handlers registered, nothing started
Created == [pc |-> "created", connected |-> FALSE, handled |-> 0, error |-> <<>>]

\* main(): await server.start()
Start ==
    /\ server.pc = "created"
    /\ server' = [server EXCEPT !.pc = "building"]
    /\ UNCHANGED <<ixvars, rfvars, pavars, sdvars, hdvars>>

\* mutant: a failed initial build is logged and start() goes on
SwallowedBuildFailure(built) == [server EXCEPT !.pc = "built"]

\* catch (error) { logger.error(...); throw error; }: start() rejects with
\* the error of buildIndex() and main() exits
RethrownBuildFailure(built) == [server EXCEPT !.pc = "failed", !.error = <<built.error>>]

AfterInitialBuild(built) ==
    /\ server' = IF built.ok THEN [server EXCEPT !.pc = "built"]
                 ELSE RethrownBuildFailure(built)
    /\ cache' = built.cache

\* start(): await this.indexer.buildIndex()
InitialBuild(walkThrows) ==
    /\ server.pc = "building"
    /\ AfterInitialBuild(BuildIndexAlone(cache, fs, root, 1, walkThrows))
    /\ UNCHANGED <<root, fs, pc, op, opId, pending, local, ret, warns, failedBy, hist,
                   after, stable, nOps, nFsChanges, rfvars, pavars, sdvars, hdvars>>

\* start(): await this.server.connect(new StdioServerTransport())
Connect ==
    /\ server.pc = "built"
    /\ server' = [server EXCEPT !.pc = "running", !.connected = TRUE]
    /\ UNCHANGED <<ixvars, rfvars, pavars, sdvars, hdvars>>

\* the connected transport delivers a request and the Server dispatches it
\* to the handler registered by setupHandlers()
Receive(request) ==
    /\ server.connected
    /\ server.handled < MaxRequests
    /\ tpc \in {"idle", "done"}
    /\ tq' = request
    /\ tpc' = "ready"
    /\ tres' = NoOutcome
    /\ traised' = <<>>
    /\ server' = [server EXCEPT !.handled = @ + 1]
    /\ UNCHANGED <<ixvars, rfvars, pavars, sdvars>>

\* stop(): await this.server.close()
Stop ==
    /\ server.pc = "running"
    /\ server' = [server EXCEPT !.pc = "stopped", !.connected = FALSE]
    /\ UNCHANGED <<ixvars, rfvars, pavars, sdvars, hdvars>>

\* the requests a client sends
ServerRequests ==
    {r \in ToolRequests : r.name \in {"get_plugin_reference", "delete_plugin"}}
        \cup ResourceRequests

ServerInit ==
    /\ root = PlainRoot
    /\ fs \in InitFs
    /\ IndexStart
    /\ RefactorIdle /\ PatternIdle /\ SassIdle /\ HandlersIdle
    /\ server = Created

ServerNext ==
    \/ Start
    \/ \E walkThrows \in BOOLEAN : InitialBuild(walkThrows)
    \/ Connect
    \/ \E request \in ServerRequests : Receive(request)
    \/ (\E walkThrows \in BOOLEAN : CallTool(walkThrows)) /\ UNCHANGED svvars
    \/ (\E walkThrows \in BOOLEAN : ReadResource(walkThrows)) /\ UNCHANGED svvars
    \/ Stop

SpecServer == ServerInit /\ [][ServerNext]_vars

----------------------------------------------------------------------------
(* Properties of parseComponent and extractSassDoc, checked under SpecSass *)

IsDeclaration(line) ==
    line.node = "mixin" \/ (line.node = "decl" /\ StartsWith(line.prop, <<"$">>))

\* the doc-comment that line i of the stylesheet should be described by:
\* the nearest comment before it, unless a declaration lies between them
NearestUnconsumed(i) ==
    IF \E j \in 1..(i - 1) :
          /\ sheet[j].node = "comment"
          /\ \A k \in (j + 1)..(i - 1) :
                sheet[k].node # "comment" /\ ~IsDeclaration(sheet[k])
    THEN LET j == CHOOSE j \in 1..(i - 1) :
                    /\ sheet[j].node = "comment"
                    /\ \A k \in (j + 1)..(i - 1) :
                          sheet[k].node # "comment" /\ ~IsDeclaration(sheet[k])
         IN <<Trim(sheet[j].text)>>
    ELSE <<>>

VariableLines ==
    SelectSeq([i \in 1..Len(sheet) |-> i],
              LAMBDA i : sheet[i].node = "decl" /\ StartsWith(sheet[i].prop, <<"$">>))

\* C11: in the record parseComponent returns, each variable's description is
\* the nearest doc-comment that precedes its declaration and is not already
\* attached to an earlier declaration, and is absent when there is none.
C11_NearestPrecedingComment ==
    component # <<>> =>
        /\ Len(component[1].variables) = Len(VariableLines)
        /\ \A k \in 1..Len(VariableLines) :
              /\ component[1].variables[k].name = sheet[VariableLines[k]].prop
              /\ component[1].variables[k].description =
                    NearestUnconsumed(VariableLines[k])

Declares(line, n) ==
    \/ line.node = "mixin" /\ line.mixin = n
    \/ line.node = "decl" /\ line.prop = <<"$">> \o n

DirectlyDocumented(i) ==
    \E j \in 1..(i - 1) : sheet[j].doc /\ \A k \in (j + 1)..(i - 1) : sheet[k].blank

\* C20: in extractSassDoc the pending buffer is empty after every non-blank
\* line that is not a /// line, and a name has a description only if one of
\* the lines declaring it is directly preceded, blank lines aside, by ///
\* lines.
C20_BufferDroppedByOtherLines ==
    /\ (scanned > 0 /\ ~sheet[scanned].blank /\ ~sheet[scanned].doc) => currentDoc = <<>>
    /\ \A n \in SassNames :
          docs[n] # <<>> =>
              \E i \in 1..scanned : Declares(sheet[i], n) /\ DirectlyDocumented(i)

----------------------------------------------------------------------------
(* Properties of analyzePattern, checked under SpecPattern *)

PluginAnalysed == ppc = "done" /\ pq.patternType = "plugin"

\* the text handed to the script parser, when there is one
TextRead == pfile.st # "unreadable"
AnalysedText == IF pfile.st = "file" THEN pfile.src ELSE pq.code

Scored == PluginAnalysed /\ TextRead /\ AnalysedText.js /\ pres.status = "ok"

AxisSum ==
    pres.value.conformance.architecture + pres.value.conformance.conventions
        + pres.value.conformance.accessibility

\* the exemplary plugin: extends Plugin, _init, _destroy and a constructor,
\* PascalCase name, doc-tag markers, events all namespaced, ARIA, keyboard
\* and focus markers
Exemplary(code) ==
    /\ code.js
    /\ Len(code.decls) = 1
    /\ code.decls[1].super = Ident(<<"Plugin">>)
    /\ \A m \in {<<"_init">>, <<"_destroy">>, <<"constructor">>} :
          \E i \in 1..Len(code.decls[1].members) :
              code.decls[1].members[i] = Method(m)
    /\ code.decls[1].id = <<"My", "Plugin">>
    /\ {"/**", "@class"} \subseteq code.words
    /\ code.calls # <<>>
    /\ \A i \in 1..Len(code.calls) :
          /\ code.calls[i].callee = "trigger" /\ code.calls[i].sole
          /\ Includes(code.calls[i].value, <<".zf.">>)
    /\ code.words \cap {"aria-", "role="} # {}
    /\ code.words \cap {"Keyboard", "KEYS"} # {}
    /\ code.words \cap {"focus()", "$element.focus"} # {}

\* C7 (as stated): the exemplary plugin is scored 100 on each of the three
\* axes and classified "matches".
C7_ExemplaryScoresFullMarks ==
    (Scored /\ Exemplary(AnalysedText)) =>
        /\ pres.value.conformance =
              [architecture |-> 100, conventions |-> 100, accessibility |-> 100]
        /\ pres.value.matches = "matches"

\* C7 (amended): the exemplary plugin is scored 80 on the architecture axis,
\* 100 on the conventions axis and 100 on the accessibility axis, and is
\* classified "matches".
C7_ExemplaryScores ==
    (Scored /\ Exemplary(AnalysedText)) =>
        /\ pres.value.conformance =
              [architecture |-> 80, conventions |-> 100, accessibility |-> 100]
        /\ pres.value.matches = "matches"
        /\ pres.value.issues = <<>>

C7_Witness ==
    /\ Scored
    /\ pfile = Absent
    /\ Exemplary(pq.code)
    /\ pq.code.words = Markers
    /\ pres.value.matches = "matches"

\* C8: for every parsed plugin source the classification is "matches"
\* exactly when the three axis scores sum to at least 240, "partial-match"
\* exactly when the sum is at least 150 and below 240, "no-match" otherwise.
C8_ClassifiedBySum ==
    Scored =>
        /\ pres.value.matches = "matches" <=> AxisSum >= 240
        /\ pres.value.matches = "partial-match" <=> (AxisSum >= 150 /\ AxisSum < 240)
        /\ pres.value.matches = "no-match" <=> AxisSum < 150

C8_Witness ==
    /\ Scored
    /\ AxisSum = 240
    /\ pres.value.matches = "matches"

\* C9 (as stated): analyzePattern with kind "plugin" given a text the script
\* parser cannot parse does not throw and returns the fixed failure report.
C9_UnparseableInputGetsFixedReport ==
    (PluginAnalysed /\ ~pq.code.js) =>
        /\ pres.status = "ok"
        /\ pres.value = ParseFailureReport

\* C9 (amended): the text analysed is the given text, or the content of the
\* file that the given text names when it names an existing entry.  When
\* the script parser cannot parse the text analysed, the call does not throw
\* and returns the fixed failure report: "no-match", one issue of severity
\* error, all three axes 0, one suggestion.  When the named entry cannot be
\* read the call throws.
C9_UnparseableTextGetsFixedReport ==
    /\ (PluginAnalysed /\ TextRead /\ ~AnalysedText.js) =>
          /\ pres.status = "ok"
          /\ pres.value.matches = "no-match"
          /\ Len(pres.value.issues) = 1
          /\ pres.value.issues[1].severity = "error"
          /\ pres.value.issues[1].message = <<"Failed to parse code">>
          /\ pres.value.conformance =
                [architecture |-> 0, conventions |-> 0, accessibility |-> 0]
          /\ pres.value.suggestions = <<"Fix syntax errors before analyzing">>
    /\ (PluginAnalysed /\ ~TextRead) => pres.status = "error"

C9_Witness ==
    /\ PluginAnalysed
    /\ pfile = Absent
    /\ ~pq.code.js
    /\ pq.code.scss
    /\ pq.code.words = Markers
    /\ pres.status = "ok"
    /\ pres.value.matches = "no-match"

----------------------------------------------------------------------------
(* Properties of analyzeForRefactoring, checked under SpecRefactor *)

Analysed == rpc = "done"
Answered == Analysed /\ rres.status = "ok"
Suggested == rres.value.suggestedFoundationComponents

\* the catalog of the declared kind in the current snapshot
DeclaredCatalog ==
    IF rq.sourceType = "custom-plugin"
    THEN IndexPlugins(fs, root).items
    ELSE IndexComponents(fs, root).items

Lists(catalog, slug) == \E i \in 1..Len(catalog) : catalog[i].slug = slug
SlugListed(slug) == Lists(DeclaredCatalog, slug)

First(catalog, slug) ==
    catalog[CHOOSE i \in 1..Len(catalog) :
                /\ catalog[i].slug = slug
                /\ \A j \in 1..(i - 1) : catalog[j].slug # slug]
FirstListed(slug) == First(DeclaredCatalog, slug)

TargetGiven == rq.foundationTarget # <<>>
TargetListed == TargetGiven /\ SlugListed(rq.foundationTarget[1])

\* the features of the declared kind in check order, with their keywords
\* and the catalog slug each one stands for
CheckOrder ==
    IF rq.sourceType = "custom-plugin"
    THEN << <<{"dropdown", "menu", "select"}, <<"dropdown">> >>,
            <<{"accordion", "toggle", "expand"}, <<"accordion">> >>,
            <<{"modal", "dialog", "overlay"}, <<"reveal">> >>,
            <<{"carousel", "slider", "rotation"}, <<"orbit">> >>,
            <<{"tooltip", "popover", "hint"}, <<"tooltip">> >>,
            <<{"form", "validate", "validation"}, <<"abide">> >> >>
    ELSE << <<{"button", "btn"}, <<"button">> >>,
            <<{"card", "panel", "box"}, <<"card">> >>,
            <<{"badge", "label", "tag"}, <<"badge">> >>,
            <<{"alert", "message", "notification"}, <<"callout">> >>,
            <<{"callout", "notice", "info"}, <<"callout">> >>,
            <<{"grid", "layout", "column"}, <<"xy", "-", "grid">> >> >>

LowerWords == {ToLowerCase(w) : w \in rq.sourceCode.words}
DetectedInOrder == SelectSeq(CheckOrder, LAMBDA f : f[1] \cap LowerWords # {})
DetectedCount == Len(DetectedInOrder)
FanOut == IF DetectedCount < 3 THEN DetectedCount ELSE 3

FannedOut ==
    /\ Len(Suggested) = FanOut
    /\ \A i \in 1..FanOut :
          /\ Suggested[i].similarity = 85
          /\ Suggested[i].slug = DetectedInOrder[i][2]

\* C5 (as stated): with an explicit target slug that is listed in the catalog
\* of the declared kind, a returned analysis carries exactly one suggestion,
\* with the listed entry's name and slug and similarity 100, whatever the
\* source text.
C5_ListedTargetShortCircuits ==
    (Answered /\ TargetListed) =>
        /\ Len(Suggested) = 1
        /\ Suggested[1].name = FirstListed(rq.foundationTarget[1]).name
        /\ Suggested[1].slug = rq.foundationTarget[1]
        /\ Suggested[1].similarity = 100

\* C5 (amended): a non-empty explicit target slug listed in the catalog of
\* the declared kind yields exactly one suggestion, with the first such
\* entry's name and slug and similarity 100, whatever features the source
\* has; an empty target slug is treated as no target at all, listed or not.
C5_NonEmptyListedTargetShortCircuits ==
    /\ (Answered /\ TargetListed /\ rq.foundationTarget[1] # <<>>) =>
          /\ Len(Suggested) = 1
          /\ Suggested[1].name = FirstListed(rq.foundationTarget[1]).name
          /\ Suggested[1].slug = rq.foundationTarget[1]
          /\ Suggested[1].similarity = 100
    /\ (Answered /\ TargetGiven /\ rq.foundationTarget[1] = <<>>) => FannedOut

C5_Witness ==
    /\ Answered
    /\ rq.sourceType = "custom-plugin"
    /\ rq.foundationTarget = << <<"tabs">> >>
    /\ DetectedCount >= 2
    /\ Len(Suggested) = 1
    /\ Suggested[1].similarity = 100

\* C6: with no explicit target, a returned analysis carries exactly
\* min(3, d) suggestions, d the number of detected features of the declared
\* kind, each with similarity 85, in the fixed feature-check order; a
\* component source with only the card and badge features yields Card, Badge.
C6_FeatureFanOut ==
    (Answered /\ ~TargetGiven) =>
        /\ FannedOut
        /\ (rq.sourceType = "custom-component" /\ LowerWords = {"card", "badge"}) =>
              /\ Len(Suggested) = 2
              /\ Suggested[1].name = <<"Card">>
              /\ Suggested[2].name = <<"Badge">>

C6_Witness ==
    /\ Answered
    /\ ~TargetGiven
    /\ DetectedCount > 3
    /\ Len(Suggested) = 3
    /\ Suggested[1].similarity = 85

\* the parser of the declared kind rejects the source
DeclaredGrammar == IF rq.sourceType = "custom-plugin" THEN "script" ELSE "stylesheet"
Unparseable ==
    IF rq.sourceType = "custom-plugin" THEN ~rq.sourceCode.js ELSE ~rq.sourceCode.scss

\* C10: when the parser of the declared kind cannot parse the source, the
\* call fails with that parser's ParseError unmodified and yields no result.
C10_ParseFailureIsFatal ==
    (Analysed /\ Unparseable) =>
        /\ rres.status = "error"
        /\ DOMAIN rres = {"status", "error"}
        /\ rres.error = ParseError(DeclaredGrammar, rq.sourceCode)

C10_Witness ==
    /\ Analysed
    /\ rq.sourceType = "custom-plugin"
    /\ ~rq.sourceCode.js
    /\ rq.sourceCode.scss
    /\ rq.sourceCode.words # {}
    /\ rres.status = "error"

\* C12 (as stated): analyzeForRefactoring leaves the cache as it found it,
\* for every input and every outcome.
C12_CacheUntouched == [][cache' = cache]_vars

\* C12 (amended): analyzeForRefactoring leaves a stored snapshot as it found
\* it, and leaves the cache alone when the call fails; a call that finds the
\* cache empty and returns a result has stored the snapshot it built from
\* the files.
C12_CacheWrittenOnlyOnMiss ==
    [][/\ cache[PluginIndexKey] # <<>> => cache' = cache
       /\ rres'.status = "error" => cache' = cache
       /\ (cache[PluginIndexKey] = <<>> /\ rres'.status = "ok") =>
             /\ cache'[PluginIndexKey] # <<>>
             /\ Value(cache'[PluginIndexKey][1]) = FullIndex(fs, root)
             /\ cache'[ComponentIndexKey] = cache[ComponentIndexKey]]_vars

C12_Witness ==
    /\ Answered
    /\ cache[PluginIndexKey] # <<>>
    /\ cache[PluginIndexKey][1].grids.by = 1
    /\ fs = MixedFs

----------------------------------------------------------------------------
(* Properties of the suggestion list *)

\* C18 (as stated): no two suggestions of one result share a slug.
C18_NoTwoSuggestionsShareSlug ==
    Answered =>
        \A i \in 1..Len(Suggested) : \A j \in 1..Len(Suggested) :
            i # j => Suggested[i].slug # Suggested[j].slug

AlertAndCalloutAmongFirstThree ==
    /\ rq.sourceType = "custom-component"
    /\ ~TargetGiven
    /\ \E i \in 1..2 :
          /\ i + 1 <= DetectedCount
          /\ DetectedInOrder[i][1] = {"alert", "message", "notification"}
          /\ DetectedInOrder[i + 1][1] = {"callout", "notice", "info"}

\* C18 (amended): the list is not deduplicated.  When the alert-like and the
\* callout-like feature are both among the first three detected, the result
\* has two suggestions with slug callout, one after the other; two
\* suggestions share a slug in no other case.
C18_CalloutSuggestedTwice ==
    Answered =>
        /\ \A i \in 1..Len(Suggested) : \A j \in 1..Len(Suggested) :
              (i < j /\ Suggested[i].slug = Suggested[j].slug) =>
                  /\ Suggested[i].slug = <<"callout">>
                  /\ j = i + 1
                  /\ Suggested[i].reasoning = <<"Detected", "hasAlert">>
                  /\ Suggested[j].reasoning = <<"Detected", "hasCallout">>
        /\ AlertAndCalloutAmongFirstThree =>
              \E i \in 1..(Len(Suggested) - 1) :
                  /\ Suggested[i].slug = <<"callout">>
                  /\ Suggested[i + 1].slug = <<"callout">>

\* C18 witness: a stylesheet with a card, an alert and a callout yields
\* Card, Callout, Callout
C18_Witness ==
    /\ Answered
    /\ ~TargetGiven
    /\ Len(Suggested) = 3
    /\ Suggested[1].slug = <<"card">>
    /\ Suggested[2].slug = <<"callout">>
    /\ Suggested[3].slug = <<"callout">>

----------------------------------------------------------------------------
(* Properties of the breaking-change list *)

Changes == rres.value.breakingChanges

EndsWithNotes(notes) ==
    /\ Len(Changes) >= Len(notes)
    /\ SubSeq(Changes, Len(Changes) - Len(notes) + 1, Len(Changes)) = notes

\* the remediation strings of the two kinds
PluginRemediations ==
    {"Replace addEventListener with jQuery .on() method",
     "Use jQuery addClass/removeClass instead of classList",
     "Use jQuery .trigger() for events instead of dispatchEvent",
     "Must implement _destroy() for proper cleanup",
     "Add ARIA attributes for accessibility compliance"}
ComponentRemediations ==
    {"Organize styles into reusable mixins",
     "Include mixin in main component mixin",
     "Use Foundation color palette variables instead of hardcoded colors"}

PrecededOnlyBy(notes, remediations) ==
    /\ \A i \in 1..(Len(Changes) - Len(notes)) : Changes[i] \in remediations
    /\ \A i \in 1..Len(Changes) : \A j \in 1..Len(Changes) :
          i # j => Changes[i] # Changes[j]

PluginNotes ==
    << "Data attribute format changes to [data-{slug}]",
       "Selector changes to use Foundation data attributes",
       "Event namespace changes to .zf.{pluginname}" >>

UnitNote == "Replace px units with rem-calc() for responsive design"
DefaultFlagNote == "Add !default flag to all variables for customization"

ComponentNamingNotes ==
    << "CSS class naming may change to align with Foundation conventions",
       "Layout assumptions may conflict with Foundation grid system" >>

Mentions(note) == \E i \in 1..Len(Changes) : Changes[i] = note

\* C19 (as stated): the list ends with the universal notes of the declared
\* kind in a fixed order, whatever the source (plugin: data attribute,
\* selector, event namespace; component: unit, !default flag, CSS naming,
\* grid), preceded only by remediation strings, none of them twice.
C19_FixedTrailingNotes ==
    Answered =>
        IF rq.sourceType = "custom-plugin"
        THEN /\ EndsWithNotes(PluginNotes)
             /\ PrecededOnlyBy(PluginNotes, PluginRemediations)
        ELSE /\ EndsWithNotes(<<UnitNote, DefaultFlagNote>> \o ComponentNamingNotes)
             /\ PrecededOnlyBy(<<UnitNote, DefaultFlagNote>> \o ComponentNamingNotes,
                               ComponentRemediations)

\* C19 (amended): for a plugin the list ends with the three universal
\* notes; for a component it ends with two, CSS naming and grid.  The unit
\* note and the !default note of a component depend on the source (px
\* without rem; no !default) and stand first among the remediation strings.
\* No string appears twice.
C19_TrailingNotesOfTheKind ==
    Answered =>
        IF rq.sourceType = "custom-plugin"
        THEN /\ EndsWithNotes(PluginNotes)
             /\ PrecededOnlyBy(PluginNotes, PluginRemediations)
        ELSE /\ EndsWithNotes(ComponentNamingNotes)
             /\ PrecededOnlyBy(ComponentNamingNotes,
                               ComponentRemediations \cup {UnitNote, DefaultFlagNote})
             /\ Mentions(UnitNote) <=>
                    ("px" \in rq.sourceCode.words /\ "rem" \notin rq.sourceCode.words)
             /\ Mentions(DefaultFlagNote) <=> "!default" \notin rq.sourceCode.words
             /\ Mentions(UnitNote) => Changes[1] = UnitNote
             /\ Mentions(DefaultFlagNote) =>
                    Changes[IF Mentions(UnitNote) THEN 2 ELSE 1] = DefaultFlagNote

\* C19 witness: a stylesheet with !default and rem units gets neither the
\* unit note nor the !default note
C19_Witness ==
    /\ Answered
    /\ rq.sourceType = "custom-component"
    /\ {"px", "rem", "!default"} \subseteq rq.sourceCode.words
    /\ "@mixin" \notin rq.sourceCode.words
    /\ Changes[1] = "Organize styles into reusable mixins"
    /\ ~Mentions(UnitNote) /\ ~Mentions(DefaultFlagNote)

----------------------------------------------------------------------------
(* Properties of the event-naming check *)

HasIssue(message) ==
    \E i \in 1..Len(pres.value.issues) : pres.value.issues[i].message = message

EventWarning == HasIssue(<<"Events should use .zf.{plugin} namespace">>)

\* the conventions score less the base points and the points of the class
\* name and doc-comment checks
EventPoints ==
    pres.value.conformance.conventions - 30
        - (IF HasIssue(<<"Plugin class name should be PascalCase">>) THEN 0 ELSE 30)
        - (IF HasIssue(<<"Add JSDoc comments to your plugin">>) THEN 0 ELSE 20)

ScannedEvents == ScanTriggerEvents(AnalysedText.calls)
Namespaced(event) == Includes(event, <<".zf.">>)

\* C17 (as stated): the 20 event-naming points are granted exactly when
\* every event name found by the .trigger("...") scan contains ".zf.", or the
\* scan finds no event; otherwise they are withheld and the namespace
\* warning is added.
C17_PointsWhenEveryEventNamespaced ==
    Scored =>
        /\ EventPoints \in {0, 20}
        /\ EventPoints = 20 <=>
              \A i \in 1..Len(ScannedEvents) : Namespaced(ScannedEvents[i])
        /\ EventWarning <=> EventPoints = 0

\* C17 (amended): the points are granted exactly when at least one event
\* name found by the scan contains ".zf.", or the scan finds no event; they
\* are withheld, with the warning, when events were found and none of them
\* contains ".zf.".
C17_PointsWhenSomeEventNamespaced ==
    Scored =>
        /\ EventPoints \in {0, 20}
        /\ EventPoints = 20 <=>
              \/ ScannedEvents = <<>>
              \/ \E i \in 1..Len(ScannedEvents) : Namespaced(ScannedEvents[i])
        /\ EventWarning <=> EventPoints = 0

\* C17 witness: two events found, one namespaced and one not, and the
\* points granted
C17_Witness ==
    /\ Scored
    /\ Len(ScannedEvents) = 2
    /\ Namespaced(ScannedEvents[1]) /\ ~Namespaced(ScannedEvents[2])
    /\ EventPoints = 20 /\ ~EventWarning

----------------------------------------------------------------------------
(* Properties of the tool and resource handlers *)

ToolCalled == tpc = "done" /\ tq.via = "tool"
Failed == traised # <<>>

\* the index the handler worked on, once it is in the cache
IndexBuilt == cache[PluginIndexKey] # <<>>
Catalog(name) == cache[PluginIndexKey][1][name].items

\* the failures inside a handler: no such tool, arguments the schema
\* refuses, a text the parser refuses, a slug the catalog does not list
UnknownTool == tq.name \notin ToolNames
SchemaFailure ==
    /\ tq.name \in ToolNames \ {"get_plugin_reference", "get_component_reference"}
    /\ ~tq.args.conforms
ParseFailure ==
    /\ tq.name = "refactor_to_foundation"
    /\ tq.args.conforms
    /\ IF tq.args.kind = "plugin" THEN ~tq.args.code.js ELSE ~tq.args.code.scss
ToolEntryNotFound ==
    /\ IndexBuilt
    /\ \/ tq.name = "get_plugin_reference"
             /\ (tq.args.slug = <<>> \/ ~Lists(Catalog("plugins"), tq.args.slug[1]))
       \/ tq.name = "get_component_reference"
             /\ (tq.args.slug = <<>> \/ ~Lists(Catalog("components"), tq.args.slug[1]))

ErrorText == tres.value.content[1].text

\* C13 (as stated): callTool never throws; every failure inside a handler
\* comes back as a payload that carries the message of the error and a
\* stable error-kind code, and no stack trace.
C13_FailurePayloadCarriesCode ==
    ToolCalled /\ Failed =>
        /\ tres.status = "returned"
        /\ ErrorText = <<"Error: ">> \o MessageOf(traised[1])
        /\ \/ "code" \in DOMAIN tres.value
           \/ "code" \in DOMAIN tres.value.content[1]
           \/ ("code" \in DOMAIN traised[1] /\ Includes(ErrorText, <<traised[1].code>>))

\* C13 (amended): callTool never throws; each of the four failures comes
\* back as { content: [{ type: 'text', text: 'Error: ' + message }],
\* isError: true }, with no error-kind code and no stack trace in it; a call
\* that did not fail comes back without isError.
C13_FailurePayloadCarriesMessageOnly ==
    ToolCalled =>
        /\ tres.status = "returned"
        /\ (UnknownTool \/ SchemaFailure \/ ParseFailure \/ ToolEntryNotFound) => Failed
        /\ Failed =>
              /\ DOMAIN tres.value = {"content", "isError"}
              /\ tres.value.isError = TRUE
              /\ Len(tres.value.content) = 1
              /\ DOMAIN tres.value.content[1] = {"type", "text"}
              /\ tres.value.content[1].type = "text"
              /\ ErrorText = <<"Error: ">> \o MessageOf(traised[1])
              /\ ~Includes(ErrorText, StackOf(traised[1]))
              /\ traised[1].name = "ParseError" => ~Includes(ErrorText, <<"PARSE_ERROR">>)
        /\ ~Failed => DOMAIN tres.value = {"content"}

\* a ParseError, which has a code, came back from refactor_to_foundation
C13_Witness ==
    /\ ToolCalled /\ ParseFailure /\ Failed
    /\ traised[1].name = "ParseError" /\ traised[1].code = "PARSE_ERROR"
    /\ tres.status = "returned"

\* the lookups by slug and the slug they were given
PluginLookup ==
    \/ tq.via = "tool" /\ tq.name = "get_plugin_reference" /\ tq.args.slug # <<>>
    \/ tq.via = "resource" /\ MatchesDynamic(tq.uri, "plugins") /\ tq.uri[6] = "docs"
ComponentLookup ==
    \/ tq.via = "tool" /\ tq.name = "get_component_reference" /\ tq.args.slug # <<>>
    \/ tq.via = "resource" /\ MatchesDynamic(tq.uri, "components") /\ tq.uri[6] = "docs"
LookedUp == IF tq.via = "tool" THEN tq.args.slug[1] ELSE <<tq.uri[4]>>
SlugText1 == IF tq.via = "tool" THEN tq.args.slug[1] ELSE tq.uri[4]

GenerateCalled == tpc = "done" /\ tq.via = "generate"
Files == tres.value.files

\* C16: generate(), for valid parameters, returns status "success", a plugin
\* file at js/foundation.{slug}.js and a non-empty list of integration steps;
\* the test file is there exactly when includeTests is true, at
\* test/javascript/{slug}.spec.js, and the documentation exactly when
\* includeDocs is true, at docs/pages/{slug}.md.
C16_GeneratedFiles ==
    GenerateCalled /\ ValidParams(tq.params) =>
        /\ tres.status = "returned"
        /\ tres.value.status = "success"
        /\ "plugin" \in DOMAIN Files
        /\ Files["plugin"].path = "js/foundation." \o tq.params.slug \o ".js"
        /\ Len(tres.value.integrationSteps) > 0
        /\ ("test" \in DOMAIN Files) <=> tq.params.includeTests
        /\ "test" \in DOMAIN Files =>
              Files["test"].path = "test/javascript/" \o tq.params.slug \o ".spec.js"
        /\ ("docs" \in DOMAIN Files) <=> tq.params.includeDocs
        /\ "docs" \in DOMAIN Files =>
              Files["docs"].path = "docs/pages/" \o tq.params.slug \o ".md"

\* a plugin with features and a test file and no documentation
C16_Witness ==
    /\ GenerateCalled /\ ValidParams(tq.params)
    /\ tq.params.features # <<>> /\ tq.params.includeTests /\ ~tq.params.includeDocs
    /\ DOMAIN Files = {"plugin", "test"}
    /\ tq.params.slug = "test-plugin"

----------------------------------------------------------------------------
(* Properties of parsePlugin, checked under SpecParser *)

Parsed == tpc = "done" /\ tq.via = "parse" /\ tres.status = "returned"
Classes == tq.code.decls

NoRepeat(names) ==
    \A i \in 1..Len(names) : \A j \in 1..Len(names) : i # j => names[i] # names[j]

\* C21: the method names and the property names that parsePlugin returns
\* hold no name twice.
C21_MemberNamesUnique ==
    Parsed => NoRepeat(tres.value.methods) /\ NoRepeat(tres.value.properties)

ExportedAt(i) == Classes[i].exported
WithParentAt(i) == Classes[i].super.kind = "ident"

----------------------------------------------------------------------------
(* Properties of the index walk, checked under SpecWalk *)

\* the slugs of a catalog, in catalog order
Slugs(items) == [i \in 1..Len(items) |-> items[i].slug]

\* C23: in every snapshot returned by buildIndex(), no two entries of the
\* plugin catalog, of the component catalog or of the utility catalog share
\* a slug, whatever file names the walk found.
C23_SlugsDistinct ==
    \A p \in Procs :
        Returned(p) => \A k \in Kinds : NoRepeat(Slugs(ret[p][1][k].items))

\* the file names that are plugin files by name: foundation.*.js other than
\* foundation.util.*.js, foundation.core.*.js and foundation.js
PluginFileNames ==
    { n \in NameSet("js") :
        /\ MatchesPluginGlob(n)
        /\ ~StartsWith(n, <<"foundation", ".", "util", ".">>)
        /\ ~StartsWith(n, <<"foundation", ".", "core", ".">>)
        /\ n # <<"foundation", ".", "js">> }

\* foundation.<slug>.js
SlugOfName(n) == SubSeq(n, 3, Len(n) - 2)

\* C24: the plugin catalog of a snapshot has entries of plugin files only,
\* and one for every plugin file that parses with a class name, whatever
\* the repository root is.
C24_PluginsFromPluginFiles ==
    \A p \in Procs :
        Returned(p) =>
            /\ \A i \in 1..Len(ret[p][1].plugins.items) :
                  \E n \in PluginFileNames :
                      ret[p][1].plugins.items[i].slug = SlugOfName(n)
            /\ \A n \in PluginFileNames :
                  fs["js"][n] = GoodFile(n)
                      => SeqHas(Slugs(ret[p][1].plugins.items), SlugOfName(n))

----------------------------------------------------------------------------
(* Properties of the axis scores, checked under SpecPattern *)

Reported == ppc = "done" /\ pres.status = "ok"

\* C25: every report of analyzePattern has each of the three axis scores in
\* 0..100, and the conventions score of a plugin source that parses is at
\* least 30.
C25_ScoresInRange ==
    /\ Reported =>
          \A axis \in {"architecture", "conventions", "accessibility"} :
              pres.value.conformance[axis] \in 0..100
    /\ Scored => pres.value.conformance.conventions >= 30

\* C25 witness: a parsed plugin source that earns no conventions points of
\* its own and every accessibility point
C25_Witness ==
    /\ Scored
    /\ ~IsPascalCase(ParsePlugin(AnalysedText).value.className)
    /\ ~HasJSDoc(AnalysedText)
    /\ ~EventNamingOk(ScanTriggerEvents(AnalysedText.calls))
    /\ pres.value.conformance.conventions = 30
    /\ pres.value.conformance.accessibility = 100

\* C28: a plugin source classified "matches", which validate_plugin reports
\* as valid, has no issue of severity error: the errors list of the
\* validation is empty.
C28_MatchesHasNoError ==
    (Scored /\ pres.value.matches = "matches") =>
        Messages(pres.value.issues, "error") = <<>>

----------------------------------------------------------------------------
(* Properties of invalidation and of failing walks, checked under Spec *)

\* invalidateCache() called by q has returned
Invalidated(q) == op[q] = "invalidateCache" /\ pc[q] = "done"

\* C26: once an invalidateCache() call has returned, the cache holds no
\* snapshot of a walk started before that call, and a buildIndex() started
\* after it returns no such snapshot, also when a buildIndex() was between
\* its cache miss and its cache write while the invalidation ran.
C26_NoSnapshotFromBeforeInvalidation ==
    \A q \in Procs :
        Invalidated(q) =>
            /\ CacheHas(cache, PluginIndexKey)
                  => CacheGet(cache, PluginIndexKey)[1].grids.by > opId[q]
            /\ \A p \in Procs :
                  (Returned(p) /\ opId[p] > opId[q]) => ret[p][1].grids.by > opId[q]

\* buildIndex() called by p has failed on a directory walk
WalkFailed(p) == op[p] = "buildIndex" /\ pc[p] = "failed" /\ failedBy[p] = "findFiles"

\* C27: when a directory walk of a buildIndex() call throws, the call fails
\* and returns nothing, the step leaves the cache as it was, the cache never
\* holds a snapshot of that call, and a buildIndex() that finds the cache
\* empty afterwards starts all three walks.
C27_FailedBuildWritesNothing ==
    [][\A p \in Procs :
          /\ (pc[p] = "walk" /\ pc'[p] = "failed") =>
                /\ cache' = cache
                /\ ret'[p] = <<>>
                /\ local'[p] = [k \in Kinds |-> NoCatalog]
          /\ (op'[p] = "buildIndex" /\ pc'[p] = "failed" /\ CacheHas(cache', PluginIndexKey))
                => CacheGet(cache', PluginIndexKey)[1].grids.by # opId'[p]
          /\ \A q \in Procs :
                (/\ WalkFailed(p)
                 /\ ~CacheHas(cache, PluginIndexKey)
                 /\ op'[q] = "buildIndex" /\ opId'[q] > opId[q])
                    => (pc'[q] = "walk" /\ pending'[q] = Kinds)]_vars

\* C27 witness: one call failed on a walk, nothing is cached, and a later
\* call has started all three walks
C27_Witness ==
    \E p \in Procs, q \in Procs :
        /\ WalkFailed(p)
        /\ ~CacheHas(cache, PluginIndexKey)
        /\ op[q] = "buildIndex" /\ opId[q] > opId[p]
        /\ pc[q] = "walk" /\ pending[q] = Kinds

----------------------------------------------------------------------------
(* Properties of an unlisted target, checked under SpecRefactor *)

\* C30: a call with an explicit target slug that the catalog of the declared
\* kind does not list fails only as a call with no target fails (the source
\* does not parse, or a directory walk throws) and otherwise returns the
\* suggestions of a call with no target: at most three feature-detected
\* suggestions in check order, each with similarity 85, none with 100.
C30_UnlistedTargetFallsThrough ==
    (Analysed /\ TargetGiven /\ ~TargetListed) =>
        /\ (rres.status = "error" /\ ~Unparseable)
              => rres.error = RethrownError([name |-> "Error", code |-> "findFiles"])
        /\ Answered =>
              /\ FannedOut
              /\ Len(Suggested) <= 3
              /\ \A i \in 1..Len(Suggested) : Suggested[i].similarity = 85

\* C30 witness: the unlisted target orbit is given with a plugin source that
\* has the carousel feature, and orbit is suggested as a detected feature
C30_Witness ==
    /\ Answered
    /\ rq.sourceType = "custom-plugin"
    /\ rq.foundationTarget = << <<"orbit">> >>
    /\ ~TargetListed
    /\ DetectedCount >= 2
    /\ \E i \in 1..Len(Suggested) :
          Suggested[i].slug = <<"orbit">> /\ Suggested[i].similarity = 85

----------------------------------------------------------------------------
(* Properties of the server start, checked under SpecServer *)

\* C29: start() connects the transport only after the initial buildIndex()
\* has completed successfully; when the initial build fails, start() fails
\* with the error of the build, the transport is never connected and no
\* request is ever dispatched to a handler.
C29_ConnectsOnlyAfterIndexBuilt ==
    [][/\ (server'.connected /\ ~server.connected) =>
             (server.pc = "built" /\ CacheHas(cache, PluginIndexKey))
       /\ (server'.pc = "built" /\ server.pc # "built") =>
             CacheHas(cache', PluginIndexKey)
       /\ (server'.pc = "failed" /\ server.pc # "failed") =>
             /\ server'.error = <<[name |-> "Error", code |-> "findFiles"]>>
             /\ ~server'.connected
             /\ server'.handled = 0
             /\ tpc' = "idle"
       /\ server.pc = "failed" => (server' = server /\ UNCHANGED hdvars)
       /\ (tpc' = "ready" /\ tpc # "ready") => server.connected]_vars

\* C29 witness: the initial build failed on a directory walk and start()
\* rejected with that error
C29_Witness ==
    /\ server.pc = "failed"
    /\ server.error # <<>>
    /\ ~server.connected
    /\ ~CacheHas(cache, PluginIndexKey)

====
